---- MODULE Spec2Model ----
(***************************************************************************)
(* Datagrind: the Recorder (dg_main.c) writing the binary trace and the    *)
(* Analyzer (dg_view.cpp, dg_view_parse.cpp) reading it back.              *)
(*                                                                         *)
(* The trace is modelled as the sequence of records appended with          *)
(* out_byte / out_word / out_bytes.  A record keeps its type byte, the     *)
(* bytes of its length prefix exactly as written, and its body as the      *)
(* sequence of fields written, each with its width in bytes.               *)
(***************************************************************************)
EXTENDS Integers, Sequences, FiniteSets, TLC

(***************************************************************************)
(* Program constants                                                       *)
(***************************************************************************)
DG_R_HEADER == 0
DG_R_TRACK_RANGE == 3
DG_R_UNTRACK_RANGE == 4
DG_R_START_EVENT == 5
DG_R_END_EVENT == 6
DG_R_TEXT_AVMA == 8
DG_R_BBDEF == 9
DG_R_CONTEXT == 10
DG_R_BBRUN == 11
DG_R_MALLOC_BLOCK == 12
DG_R_FREE_BLOCK == 13
DG_ACC_READ == 0
DG_ACC_WRITE == 1
STACK_DEPTH == 8
WordSize == 8
MaxBBInstrs == 255
MagicLen == 11
LabelCap == 64
ShortTagLimit == 128
WordSize64 == 8
OUT_BUF_SIZE == 4096

(***************************************************************************)
(* Bounds of the model                                                     *)
(***************************************************************************)
MaxStmts == 3
MaxInstrument == 2
MaxRuns == 2
MaxRunsBB == 3
MaxEvents == 2
MaxObjects == 2
MaxLenInput == 300

\* sizes of the larger inputs
DeepCallers == 299
MaxAppends == 4

\* a file name that makes the TEXT_AVMA body 255 bytes long
LongName == 255 - WordSize - 1

NoIndex == 0 - 1

(***************************************************************************)
(* Output primitives                                                       *)
(***************************************************************************)
\* a field of the body: w bytes; k tells number fields from character fields
out_byte(v) == [k |-> "n", w |-> 1, v |-> v % 256]

out_word(v) == [k |-> "n", w |-> WordSize, v |-> v]

out_bytes(v, count) == [k |-> "s", w |-> count, v |-> v]

RECURSIVE LEBytes(_, _)
LEBytes(x, n) == IF n = 0 THEN <<>> ELSE <<x % 256>> \o LEBytes(x \div 256, n - 1)

out_length(len) == IF len < 255 THEN <<len % 256>> ELSE <<255>> \o LEBytes(len, WordSize64)

\* a length written with a single out_byte
out_len_byte(len) == <<len % 256>>

\* g is an annotation (which run or event the record belongs to), not bytes
Rec(type, pfx, body, g) == [type |-> type, pfx |-> pfx, body |-> body, g |-> g]

\* the bytes of the fields lo..hi
RECURSIVE SumW(_, _, _)
SumW(body, lo, hi) ==
    IF lo > hi THEN 0
    ELSE IF lo = hi THEN body[lo].w
    ELSE LET mid == (lo + hi) \div 2
         IN  SumW(body, lo, mid) + SumW(body, mid + 1, hi)

BodyBytes(body) == SumW(body, 1, Len(body))

Last(s) == s[Len(s)]

(***************************************************************************)
(* The output buffer: out_buf, out_buf_used and the file behind them       *)
(***************************************************************************)
\* B is [buf, used, file, oob]: buf the appends held in out_buf, each a
\* segment [id, n] of n bytes, used the value of out_buf_used, file the
\* segments VG_(write) was given, oob whether a store went outside out_buf
out_flush(B) == [B EXCEPT !.file = @ \o B.buf, !.buf = <<>>, !.used = 0]

\* count > OUT_BUF_SIZE - out_buf_used, in unsigned arithmetic: once
\* out_buf_used is above OUT_BUF_SIZE the difference wraps around to
\* 2^32 - (out_buf_used - OUT_BUF_SIZE), which no count of the model exceeds
OverRoom(B, count) == B.used <= OUT_BUF_SIZE /\ count > OUT_BUF_SIZE - B.used

FlushIfOver(B, count) == IF OverRoom(B, count) THEN out_flush(B) ELSE B

FlushIfFull(B) == IF B.used >= OUT_BUF_SIZE THEN out_flush(B) ELSE B

\* the store of count bytes at out_buf + out_buf_used.  A store that ends
\* past the array is undefined: the bytes may sit in the memory behind
\* out_buf and be written later ("intact"), may overwrite out_buf_used,
\* the variable declared next, so that they are never written ("lost"), or
\* the process may stop ("crash")
Outcomes == { "intact", "lost", "crash" }

Store(B, seg, how) ==
    IF B.used + seg.n <= OUT_BUF_SIZE
    THEN [B EXCEPT !.buf = Append(@, seg), !.used = @ + seg.n]
    ELSE CASE how = "intact" -> [B EXCEPT !.buf = Append(@, seg), !.used = @ + seg.n, !.oob = TRUE]
           [] how = "lost" -> [B EXCEPT !.buf = <<>>, !.used = 0, !.oob = TRUE]
           [] how = "crash" -> [B EXCEPT !.oob = TRUE, !.crash = TRUE]

buf_out_bytes(B, seg, how) == Store(FlushIfOver(B, seg.n), seg, how)

buf_out_byte(B, seg, how) == Store(FlushIfFull(B), seg, how)

(***************************************************************************)
(* Instrumentation: dg_instrument and the BBDef builder                    *)
(***************************************************************************)
dg_bbdef_new(id) == [id |-> id, index |-> NoIndex, start_ip |-> 0, instrs |-> <<>>, accesses |-> <<>>]

BBDefBody(bbd) ==
    LET n == Len(bbd.instrs)
        m == Len(bbd.accesses)
    IN  <<out_byte(n), out_word(m)>>
        \o [i \in 1..(2 * n) |-> IF i % 2 = 1 THEN out_word(bbd.instrs[(i + 1) \div 2].addr)
                                              ELSE out_byte(bbd.instrs[i \div 2].size)]
        \o [i \in 1..(3 * m) |-> LET a == bbd.accesses[(i + 2) \div 3]
                                 IN  IF i % 3 = 1 THEN out_byte(a.dir)
                                     ELSE IF i % 3 = 2 THEN out_byte(a.size)
                                     ELSE out_byte(a.iseq)]

\* L is the state of one dg_instrument call: objs the BBDefs it created (the
\* last one is the current bbd), code the statements of sbOut, recs the
\* records written, gbi global_bbdef_index, ip the next guest instruction.
Cur(L) == Last(L.objs)

SetCur(L, bbd) == [L EXCEPT !.objs[Len(L.objs)] = bbd]

dg_bbdef_flush(L) ==
    LET bbd == Cur(L)
        n_instrs == Len(bbd.instrs)
        n_accesses == Len(bbd.accesses)
        len == 1 + WordSize + (1 + WordSize) * n_instrs + 3 * n_accesses
    IN  IF n_instrs = 0 THEN L
        ELSE IF n_instrs > 255 THEN [L EXCEPT !.fail = "dg_bbdef_flush"]
        ELSE [SetCur(L, [bbd EXCEPT !.index = L.gbi, !.instrs = <<>>, !.accesses = <<>>])
                EXCEPT !.recs = Append(@, Rec(DG_R_BBDEF, out_length(len), BBDefBody(bbd), L.gbi)),
                       !.gbi = @ + 1]

SplitLimit_bug == MaxBBInstrs + 1

SplitLimit == MaxBBInstrs

\* a BBDef that is full is flushed and a new one is started
NextBBDef(F) == [F EXCEPT !.objs = Append(@, dg_bbdef_new(F.base + Len(F.objs) + 1))]

SplitIfFull(L) == IF Len(Cur(L).instrs) = SplitLimit THEN NextBBDef(dg_bbdef_flush(L)) ELSE L

\* the first instruction of a BBDef: its start_ip, and the call of
\* trace_bb_start in sbOut
OpenIfEmpty(L, addr) ==
    IF Len(Cur(L).instrs) = 0
    THEN [SetCur(L, [Cur(L) EXCEPT !.start_ip = addr])
            EXCEPT !.code = Append(@, [op |-> "trace_bb_start", bbd |-> Cur(L).id])]
    ELSE L

AddInstr(L, addr, size) ==
    [SetCur(L, [Cur(L) EXCEPT !.instrs = Append(@, [addr |-> addr, size |-> size % 256])])
       EXCEPT !.fail = IF size > 255 THEN "dg_bbdef_add_instr" ELSE @]

dg_bbdef_add_instr(L, addr, size) == AddInstr(OpenIfEmpty(SplitIfFull(L), addr), addr, size)

AccessIseq(n_instrs) == (n_instrs - 1) % 256

dg_bbdef_add_access(L, dir, size, guarded) ==
    LET bbd == Cur(L)
        n_instrs == Len(bbd.instrs)
        access == [dir |-> dir, size |-> size % 256, iseq |-> AccessIseq(n_instrs)]
    IN  IF n_instrs = 0 \/ size > 255 THEN [L EXCEPT !.fail = "dg_bbdef_add_access"]
        ELSE [SetCur(L, [bbd EXCEPT !.accesses = Append(@, access)])
                EXCEPT !.code = Append(@, [op |-> "trace_access", guarded |-> guarded,
                                           j |-> Len(bbd.accesses) + 1,
                                           dir |-> dir, size |-> size, same |-> FALSE])]

dg_bbdef_update_instrs(L) ==
    LET n_instrs == Len(Cur(L).instrs)
    IN  IF n_instrs = 0 THEN [L EXCEPT !.fail = "dg_bbdef_update_instrs"]
        ELSE [L EXCEPT !.code = Append(@, [op |-> "trace_update_instrs", n |-> n_instrs])]

\* Ist_IMark: the mark is copied to sbOut, then dg_bbdef_add_instr.  Marks
\* that follow each other inside one BBDef are kept as one run in code.
InstrIMark(L, len) ==
    LET n == Len(Cur(L).instrs)
        merge == n # 0 /\ n # SplitLimit /\ L.code # <<>> /\ Last(L.code).op = "IMark"
        L1 == IF merge THEN [L EXCEPT !.code[Len(L.code)].n = @ + 1]
              ELSE [L EXCEPT !.code = Append(@, [op |-> "IMark", addr |-> L.ip, n |-> 1])]
        L2 == dg_bbdef_add_instr(L1, L.ip, len)
    IN  [L2 EXCEPT !.ip = @ + 1]

\* m further marks that stay inside the current BBDef, each handled as by
\* InstrIMark (no flush, no trace_bb_start)
InstrIMarkRun(L, len, m) ==
    LET bbd == Cur(L)
        L1 == IF Last(L.code).op = "IMark" THEN [L EXCEPT !.code[Len(L.code)].n = @ + m]
              ELSE [L EXCEPT !.code = Append(@, [op |-> "IMark", addr |-> L.ip, n |-> m])]
        L2 == SetCur(L1, [bbd EXCEPT !.instrs =
                             @ \o [i \in 1..m |-> [addr |-> L.ip + i - 1, size |-> len % 256]]])
    IN  IF m = 0 THEN L ELSE [L2 EXCEPT !.ip = @ + m]

Min(a, b) == IF a < b THEN a ELSE b

\* the marks that still fit into the current BBDef, and then the rest
RECURSIVE InstrIMarks(_, _, _)
InstrIMarksFill(L1, len, k, m) ==
    IF L1.fail # "" \/ m < 0 THEN L1
    ELSE InstrIMarks(InstrIMarkRun(L1, len, m), len, k - 1 - m)

InstrIMarksAfter(L1, len, k) ==
    InstrIMarksFill(L1, len, k, Min(k - 1, SplitLimit - Len(Cur(L1).instrs)))

InstrIMarks(L, len, k) ==
    IF k = 0 \/ L.fail # "" THEN L ELSE InstrIMarksAfter(InstrIMark(L, len), len, k)

\* the exit statement itself is copied to sbOut
AddExit(U) == [U EXCEPT !.code = Append(@, [op |-> "Exit"])]

\* the two accesses of a compare-and-swap are passed the same address
SameAddress(X) == IF X.fail # "" THEN X ELSE [X EXCEPT !.code[Len(X.code)].same = TRUE]

InstrStmt(L, st) ==
    CASE st.k = "IMark" -> InstrIMarks(L, st.len, st.n)
      [] st.k = "Exit" -> AddExit(dg_bbdef_update_instrs(L))
      [] st.k = "Load" -> dg_bbdef_add_access(L, DG_ACC_READ, st.size, FALSE)
      [] st.k = "Store" -> dg_bbdef_add_access(L, DG_ACC_WRITE, st.size, FALSE)
      [] st.k = "CAS" -> SameAddress(dg_bbdef_add_access(
                                         dg_bbdef_add_access(L, DG_ACC_READ, st.size, FALSE),
                                         DG_ACC_WRITE, st.size, FALSE))
      [] st.k = "StoreG" -> dg_bbdef_add_access(L, DG_ACC_WRITE, st.size, TRUE)
      [] st.k = "LoadG" -> dg_bbdef_add_access(L, DG_ACC_READ, st.size, TRUE)

RECURSIVE InstrStmts(_, _, _)
InstrStmts(L, stmts, i) ==
    IF i > Len(stmts) \/ L.fail # "" THEN L ELSE InstrStmts(InstrStmt(L, stmts[i]), stmts, i + 1)

\* the end of dg_instrument: the last BBDef is given its instruction count
\* and is written
UpdateLast(L) == IF L.fail # "" THEN L ELSE dg_bbdef_update_instrs(L)

FlushLast(L) == IF L.fail # "" THEN L ELSE dg_bbdef_flush(L)

\* the body of dg_instrument after clean_debuginfo
InstrumentSB(nraddr, stmts, base, gbi) ==
    FlushLast(UpdateLast(InstrStmts([objs |-> <<dg_bbdef_new(base + 1)>>, code |-> <<>>,
                                     recs |-> <<>>, gbi |-> gbi, ip |-> nraddr,
                                     base |-> base, fail |-> ""], stmts, 1)))

(***************************************************************************)
(* Inputs                                                                  *)
(***************************************************************************)
\* guest statements of a superblock as dg_instrument sees them; an IMark
\* item stands for n consecutive instruction marks
IMark(n) == [k |-> "IMark", n |-> n, len |-> 1, size |-> 0]

Stmt(k, size) == [k |-> k, n |-> 0, len |-> 0, size |-> size]

StmtItems == { IMark(1), Stmt("Load", 4), Stmt("StoreG", 8), Stmt("Exit", 0) }

SeqsUpTo(S, n) == UNION { [1..m -> S] : m \in 0..n }

\* superblocks start with an instruction mark (the preamble is copied as is)
ShortSuperBlocks == { <<IMark(1)>> \o t : t \in SeqsUpTo(StmtItems, MaxStmts - 1) }

\* superblocks longer than one BBDef, and the rarer statement kinds
LongSuperBlocks ==
    { <<IMark(1), Stmt("Load", 4), IMark(MaxBBInstrs)>>,
      <<IMark(1), Stmt("Exit", 0), IMark(MaxBBInstrs)>>,
      <<IMark(MaxBBInstrs), Stmt("Load", 4), IMark(45), Stmt("Store", 2)>>,
      <<IMark(MaxBBInstrs), Stmt("Exit", 0), IMark(MaxBBInstrs + 1), Stmt("LoadG", 1)>>,
      <<IMark(2), Stmt("CAS", 16), Stmt("LoadG", 1), Stmt("Store", 2)>> }

SuperBlocks == ShortSuperBlocks \cup LongSuperBlocks

\* the superblocks that are executed when the BBDef / BBRun machinery is
\* exercised alone
RunSuperBlocks ==
    LongSuperBlocks \cup
    { <<IMark(1), Stmt("StoreG", 8), Stmt("Load", 4)>>,
      <<IMark(1), Stmt("Load", 4), Stmt("Exit", 0), IMark(1), Stmt("Store", 2)>> }

\* the superblocks used when heap and client-request events are interleaved
FewSuperBlocks ==
    { <<IMark(1), Stmt("StoreG", 8), Stmt("Load", 4)>>,
      <<IMark(2), Stmt("Exit", 0), IMark(MaxBBInstrs), Stmt("Load", 4)>> }

NrAddrs == { 4096 }

Addrs == { 16, 32 }

HeapSlots == { 256, 512 }

RangeAddrs == { 16 }

Sizes == { 24 }

\* the callers on the guest stack when a block is entered
CallerStacks == { <<>>, <<900>> }

\* a stack deeper than the 255 entries a CONTEXT record can carry
DeepStack == [i \in 1..DeepCallers |-> 900 + i]

(***************************************************************************)
(* State                                                                   *)
(***************************************************************************)
VARIABLES out, out_bbr, global_bbdef_index, global_context_index, bbds, dgsbs,
          debuginfo_table, debuginfo_dirty, block_table,
          code, objects, cli_live, pc, phase, env,
          runs, hist, gseq, cur_ip, counts,
          out_buf, out_buf_used, out_file, appended, oob,
          trace, next_rec, view, ranges, ret, pool

vars == <<out, out_bbr, global_bbdef_index, global_context_index, bbds, dgsbs,
          debuginfo_table, debuginfo_dirty, block_table,
          code, objects, cli_live, pc, phase, env,
          runs, hist, gseq, cur_ip, counts,
          out_buf, out_buf_used, out_file, appended, oob,
          trace, next_rec, view, ranges, ret, pool>>

\* the buffer under the records; the actions that append records leave it
\* alone: out is the stream of the bytes appended
buffer_vars == <<out_buf, out_buf_used, out_file, appended, oob>>

\* the Analyzer: the file it was given, the record create reads next and
\* the state of load
\* a rangemap on its own: its multimap and what the last call returned
rangemap_vars == <<ranges, ret>>

analyzer_vars == <<trace, next_rec, view, rangemap_vars, pool>>

Buffer == [buf |-> out_buf, used |-> out_buf_used, file |-> out_file, oob |-> oob, crash |-> FALSE]

recorder_vars == <<out_bbr, global_bbdef_index, global_context_index, bbds, dgsbs,
                   debuginfo_table, debuginfo_dirty, block_table>>

guest_vars == <<runs, gseq, cur_ip, env>>

\* pc: the superblock being executed, the position in its code and the
\* callers on the guest stack while it runs
Idle == [sb |-> 0, i |-> 0, callers |-> <<>>]

\* prepare_out_file: the HEADER record
HeaderRec ==
    Rec(DG_R_HEADER, out_len_byte(MagicLen + 3),
        <<out_bytes("DATAGRIND1", MagicLen - 1), out_byte(0),
          out_byte(1), out_byte(0), out_byte(WordSize)>>, 0)

\* what the guest and the host bring: the statements of the superblock, the
\* depth of the stack at allocation sites, the strings passed to the client
\* requests and the length of an object file name
Profiles ==
    { [n_ips |-> 1, label |-> [id |-> "a", len |-> 3], type |-> [id |-> "t", len |-> 5],
       fnlen |-> 12, addrs |-> {16}, stacks |-> {<<>>}, runs |-> MaxRuns],
      [n_ips |-> STACK_DEPTH, label |-> [id |-> "b", len |-> 70],
       type |-> [id |-> "u", len |-> 200], fnlen |-> LongName, addrs |-> {32},
       stacks |-> {DeepStack}, runs |-> MaxRuns] }

\* the profile of the runs that exercise the BBDef / BBRun machinery alone
ProfilesBB ==
    { [n_ips |-> 1, label |-> [id |-> "a", len |-> 3], type |-> [id |-> "t", len |-> 5],
       fnlen |-> 12, addrs |-> Addrs, stacks |-> CallerStacks, runs |-> MaxRunsBB] }

Envs(SBs, Profs) ==
    { [prog |-> sb, n_ips |-> pr.n_ips, label |-> pr.label, type |-> pr.type,
       fnlen |-> pr.fnlen, addrs |-> pr.addrs, stacks |-> pr.stacks,
       runs |-> pr.runs] : sb \in SBs, pr \in Profs }

\* dg_post_clo_init
InitRecorder ==
    /\ out = <<HeaderRec>>
    /\ out_bbr = [context_index |-> 0, n_instrs |-> 0, accesses |-> <<>>]
    /\ global_bbdef_index = 0
    /\ global_context_index = 0
    /\ bbds = <<>>
    /\ dgsbs = <<>>
    /\ debuginfo_table = {}
    /\ debuginfo_dirty = TRUE
    /\ block_table = <<>>
    /\ code = <<>>
    /\ cli_live = {}
    /\ pc = Idle
    /\ phase = "run"
    /\ runs = <<>>
    /\ hist = <<>>
    /\ gseq = 0
    /\ cur_ip = 0
    /\ counts = [instr |-> 0, runs |-> 0, events |-> 0]
    /\ out_file = <<>>
    /\ oob = FALSE

\* where the records are followed and not the buffer under them
NoBuffer == out_buf = <<>> /\ out_buf_used = 0 /\ appended = <<>>

\* dg_view has not been started
NotOpen == [status |-> "closed"]

\* rangemap(): an empty multimap
NoRanges == ranges = <<>> /\ ret = [op |-> "new", n |-> 0]

\* a pool_allocator as its constructor leaves it: chunks front first
NoPool == pool = [total_capacity |-> 0, total_size |-> 0, chunks |-> <<>>]

NotLoading == trace = <<>> /\ next_rec = 0 /\ view = NotOpen /\ NoRanges /\ NoPool

\* the host has loaded the executable before any guest code runs
InitWith(SBs, Profs) ==
    /\ InitRecorder
    /\ NoBuffer
    /\ NotLoading
    /\ env \in Envs(SBs, Profs)
    /\ objects = <<[filename_len |-> env.fnlen, text_avma |-> 65536]>>

Init == InitWith(FewSuperBlocks, Profiles)

AtIdle == phase = "run" /\ pc = Idle

Running == phase = "run" /\ pc # Idle

\* code and dgsbs are keyed by nraddr; kept as sequences of [key, ...]
Lookup(tbl, key) == { i \in 1..Len(tbl) : tbl[i].key = key }

Has(tbl, key) == Lookup(tbl, key) # {}

First(tbl, key) == tbl[CHOOSE i \in Lookup(tbl, key) : \A j \in Lookup(tbl, key) : i <= j]

RemoveFirst(tbl, key) ==
    LET i == CHOOSE i \in Lookup(tbl, key) : \A j \in Lookup(tbl, key) : i <= j
    IN  SubSeq(tbl, 1, i - 1) \o SubSeq(tbl, i + 1, Len(tbl))

Op == First(code, pc.sb).ops[pc.i]

Advance == IF pc.i >= Len(First(code, pc.sb).ops) THEN Idle ELSE [pc EXCEPT !.i = @ + 1]

(***************************************************************************)
(* Runtime helpers called from instrumented code                           *)
(***************************************************************************)
BBRunBody(bbr) ==
    <<out_word(bbr.context_index), out_byte(bbr.n_instrs)>>
    \o [i \in 1..Len(bbr.accesses) |-> out_word(bbr.accesses[i])]

FlushWanted(bbr) == bbr.n_instrs > 0

\* returns the file, the run buffer and the name of a failed assertion
trace_bb_flush(bbr, o, run) ==
    IF FlushWanted(bbr)
    THEN LET n_accesses == Len(bbr.accesses)
             length == 1 + (1 + n_accesses) * WordSize
         IN  [out |-> Append(o, Rec(DG_R_BBRUN, out_length(length), BBRunBody(bbr), run)),
              bbr |-> [bbr EXCEPT !.n_instrs = 0, !.accesses = <<>>],
              fail |-> ""]
    ELSE [out |-> o, bbr |-> bbr,
          fail |-> IF Len(bbr.accesses) = 0 THEN "" ELSE "trace_bb_flush"]

ClampIps(n) == IF n > 255 THEN 255 ELSE n

ContextRec(bbd, ec, idx) ==
    LET n_ips == ClampIps(Len(ec))
    IN  Rec(DG_R_CONTEXT, out_length(1 + (1 + n_ips) * WordSize),
            <<out_word(bbd.index), out_byte(n_ips)>> \o [i \in 1..n_ips |-> out_word(ec[i])], idx)

\* VG_(HT_lookup)(bbd->context_indices, ec); NoIndex stands for NULL
CtxLookup_bug(bbd, ec) ==
    IF bbd.context_indices # <<>> THEN bbd.context_indices[1].context_index ELSE NoIndex

CtxLookup(bbd, ec) ==
    IF Has(bbd.context_indices, ec) THEN First(bbd.context_indices, ec).context_index ELSE NoIndex

NextContextIndex_bug(g) == g

NextContextIndex(g) == g + 1

trace_bb_start ==
    /\ Running
    /\ Op.op = "trace_bb_start"
    /\ LET bbd == bbds[Op.bbd]
             F == trace_bb_flush(out_bbr, out, Len(runs))
             ec == <<bbd.start_ip>> \o pc.callers
             ctx == CtxLookup(bbd, ec)
             hit == ctx # NoIndex
             idx == IF hit THEN ctx ELSE global_context_index
         IN  IF F.fail # ""
             THEN /\ phase' = F.fail
                  /\ out' = F.out
                  /\ UNCHANGED <<out_bbr, global_context_index, bbds, pc, runs>>
             ELSE /\ out' = IF hit THEN F.out ELSE Append(F.out, ContextRec(bbd, ec, idx))
                  /\ bbds' = IF hit THEN bbds
                             ELSE [bbds EXCEPT ![Op.bbd].context_indices =
                                       <<[key |-> ec, context_index |-> idx]>> \o @]
                  /\ global_context_index' = IF hit THEN global_context_index
                                             ELSE NextContextIndex(global_context_index)
                  /\ out_bbr' = [F.bbr EXCEPT !.context_index = idx]
                  /\ runs' = Append(runs, [bbd |-> Op.bbd, index |-> bbd.index, ec |-> ec,
                                           ctx |-> idx, accs |-> <<>>, n_exec |-> 1,
                                           first |-> gseq - 1])
                  /\ pc' = Advance
                  /\ phase' = phase
    /\ UNCHANGED <<env, global_bbdef_index, dgsbs, debuginfo_table, debuginfo_dirty, block_table,
                   code, objects, cli_live, hist, gseq, cur_ip, counts>>
    /\ UNCHANGED <<buffer_vars, analyzer_vars>>

\* the dirty call runs (its guard, if any, is true)
trace_access ==
    /\ Running
    /\ Op.op = "trace_access"
    /\ \E addr \in env.addrs :
         /\ Op.same => addr = Last(out_bbr.accesses)
         /\ out_bbr' = [out_bbr EXCEPT !.accesses = Append(@, addr)]
         /\ runs' = [runs EXCEPT ![Len(runs)].accs =
                        Append(@, [j |-> Op.j, addr |-> addr, dir |-> Op.dir, size |-> Op.size,
                                   iaddr |-> cur_ip, iseq |-> gseq - 1])]
    /\ hist' = Append(hist, [k |-> "access", run |-> Len(runs), n |-> Len(Last(runs).accs) + 1])
    /\ pc' = Advance
    /\ UNCHANGED <<env, out, global_bbdef_index, global_context_index, bbds, dgsbs, debuginfo_table,
                   debuginfo_dirty, block_table, code, objects, cli_live, phase, gseq, cur_ip, counts>>
    /\ UNCHANGED <<buffer_vars, analyzer_vars>>

\* a guarded load or store whose guard is false: the dirty call is skipped
GuardFalse ==
    /\ Running
    /\ Op.op = "trace_access"
    /\ Op.guarded
    /\ pc' = Advance
    /\ UNCHANGED <<out, recorder_vars, code, objects, cli_live, phase, guest_vars, hist, counts>>
    /\ UNCHANGED <<buffer_vars, analyzer_vars>>

trace_update_instrs ==
    /\ Running
    /\ Op.op = "trace_update_instrs"
    /\ out_bbr' = [out_bbr EXCEPT !.n_instrs = Op.n]
    /\ pc' = Advance
    /\ UNCHANGED <<out, global_bbdef_index, global_context_index, bbds, dgsbs, debuginfo_table,
                   debuginfo_dirty, block_table, code, objects, cli_live, phase, guest_vars, hist, counts>>
    /\ UNCHANGED <<buffer_vars, analyzer_vars>>

\* the guest executes the n instructions of a run of marks
GuestIMark ==
    /\ Running
    /\ Op.op = "IMark"
    /\ gseq' = gseq + Op.n
    /\ cur_ip' = Op.addr + Op.n - 1
    /\ LET ops == First(code, pc.sb).ops
           opens == pc.i < Len(ops) /\ ops[pc.i + 1].op = "trace_bb_start"
       IN  runs' = IF opens THEN runs ELSE [runs EXCEPT ![Len(runs)].n_exec = @ + Op.n]
    /\ pc' = Advance
    /\ UNCHANGED <<env, out, recorder_vars, code, objects, cli_live, phase, hist, counts>>
    /\ UNCHANGED <<buffer_vars, analyzer_vars>>

\* a conditional exit in the middle of the superblock
GuestExit ==
    /\ Running
    /\ Op.op = "Exit"
    /\ \E taken \in BOOLEAN : pc' = IF taken THEN Idle ELSE Advance
    /\ UNCHANGED <<out, recorder_vars, code, objects, cli_live, phase, guest_vars, hist, counts>>
    /\ UNCHANGED <<buffer_vars, analyzer_vars>>

\* the scheduler dispatches a translated superblock
GuestEnter ==
    /\ AtIdle
    /\ counts.runs < env.runs
    /\ \E i \in 1..Len(code), callers \in env.stacks :
         pc' = [sb |-> code[i].key, i |-> 1, callers |-> callers]
    /\ counts' = [counts EXCEPT !.runs = @ + 1]
    /\ UNCHANGED <<out, recorder_vars, code, objects, cli_live, phase, guest_vars, hist>>
    /\ UNCHANGED <<buffer_vars, analyzer_vars>>

(***************************************************************************)
(* Instrumentation and superblock discard                                  *)
(***************************************************************************)
TextAvmaRec(obj) ==
    Rec(DG_R_TEXT_AVMA, out_length(obj.filename_len + WordSize + 1),
        <<out_word(obj.text_avma), out_bytes("filename", obj.filename_len), out_byte(0)>>, 0)

\* records written by clean_debuginfo for the objects i..Len(objects)
RECURSIVE CleanRecs(_, _)
CleanRecs(table, i) ==
    IF i > Len(objects) THEN <<>>
    ELSE (IF i \in table THEN <<>> ELSE <<TextAvmaRec(objects[i])>>) \o CleanRecs(table, i + 1)

\* what dg_instrument leaves behind: the records, the BBDefs, the DgSB
\* and the translation the host keeps
InstallSB(nraddr, L) ==
    /\ out' = out \o (IF debuginfo_dirty THEN CleanRecs(debuginfo_table, 1) ELSE <<>>) \o L.recs
    /\ debuginfo_table' = IF debuginfo_dirty THEN 1..Len(objects) ELSE debuginfo_table
    /\ bbds' = bbds \o [i \in 1..Len(L.objs) |->
                           [index |-> L.objs[i].index, start_ip |-> L.objs[i].start_ip,
                            context_indices |-> <<>>, live |-> TRUE]]
    /\ dgsbs' = <<[key |-> nraddr, bbdefs |-> [i \in 1..Len(L.objs) |-> L.objs[i].id]]>> \o dgsbs
    /\ code' = Append(code, [key |-> nraddr, ops |-> L.code])
    /\ global_bbdef_index' = L.gbi
    /\ phase' = IF L.fail # "" THEN L.fail ELSE phase

dg_instrument ==
    /\ AtIdle
    /\ counts.instr < MaxInstrument
    /\ \E nraddr \in NrAddrs :
         /\ ~Has(code, nraddr)
         /\ InstallSB(nraddr, InstrumentSB(nraddr, env.prog, Len(bbds), global_bbdef_index))
    /\ debuginfo_dirty' = FALSE
    /\ counts' = [counts EXCEPT !.instr = @ + 1]
    /\ UNCHANGED <<out_bbr, global_context_index, block_table, objects, cli_live, pc,
                   guest_vars, hist>>
    /\ UNCHANGED <<buffer_vars, analyzer_vars>>

\* the host drops a translation and tells the tool
dg_discard_superblock_info ==
    /\ AtIdle
    /\ \E orig_addr \in NrAddrs :
         /\ Has(code, orig_addr)
         /\ code' = RemoveFirst(code, orig_addr)
         /\ IF Has(dgsbs, orig_addr)
            THEN LET sb == First(dgsbs, orig_addr)
                     dead == { sb.bbdefs[i] : i \in 1..Len(sb.bbdefs) }
                 IN  /\ dgsbs' = RemoveFirst(dgsbs, orig_addr)
                     /\ bbds' = [i \in 1..Len(bbds) |->
                                    IF i \in dead THEN [bbds[i] EXCEPT !.live = FALSE,
                                                                       !.context_indices = <<>>]
                                    ELSE bbds[i]]
            ELSE UNCHANGED <<dgsbs, bbds>>
    /\ UNCHANGED <<out, out_bbr, global_bbdef_index, global_context_index, debuginfo_table,
                   debuginfo_dirty, block_table, objects, cli_live, pc, phase, guest_vars,
                   hist, counts>>
    /\ UNCHANGED <<buffer_vars, analyzer_vars>>

\* a new mapping; an executable one may bring a new object with debug info
dg_track_new_mem_mmap_or_startup ==
    /\ AtIdle
    /\ counts.events < MaxEvents
    /\ Len(objects) < MaxObjects
    /\ \E xx \in BOOLEAN :
         IF xx
         THEN /\ objects' = Append(objects, [filename_len |-> env.fnlen,
                                             text_avma |-> 65536 * (Len(objects) + 1)])
              /\ debuginfo_dirty' = TRUE
         ELSE UNCHANGED <<objects, debuginfo_dirty>>
    /\ counts' = [counts EXCEPT !.events = @ + 1]
    /\ UNCHANGED <<out, out_bbr, global_bbdef_index, global_context_index, bbds, dgsbs,
                   debuginfo_table, block_table, code, cli_live, pc, phase, guest_vars,
                   hist>>
    /\ UNCHANGED <<buffer_vars, analyzer_vars>>

dg_fini ==
    /\ AtIdle
    /\ LET F == trace_bb_flush(out_bbr, out, Len(runs))
       IN  /\ out' = F.out
           /\ out_bbr' = F.bbr
           /\ phase' = IF F.fail # "" THEN F.fail ELSE "done"
           /\ IF F.fail # "" THEN UNCHANGED <<out_buf, out_buf_used, out_file>>
              ELSE /\ out_file' = out_flush(Buffer).file
                   /\ out_buf' = out_flush(Buffer).buf
                   /\ out_buf_used' = out_flush(Buffer).used
    /\ UNCHANGED <<global_bbdef_index, global_context_index, bbds, dgsbs, debuginfo_table,
                   debuginfo_dirty, block_table, code, objects, cli_live, pc, guest_vars,
                   hist, counts, appended, oob, analyzer_vars>>

(***************************************************************************)
(* Heap tracker and client requests                                        *)
(***************************************************************************)
Usable(szB) == ((szB + 15) \div 16) * 16

BlockLenByte(n_ips) == out_len_byte((n_ips + 3) * WordSize)

out_add_block(block, g) ==
    Rec(DG_R_MALLOC_BLOCK, BlockLenByte(block.n_ips),
        <<out_word(block.key), out_word(block.szB), out_word(block.n_ips)>>
        \o [i \in 1..block.n_ips |-> out_word(7000 + i)], g)

out_remove_block(block, g) ==
    Rec(DG_R_FREE_BLOCK, out_len_byte(WordSize), <<out_word(block.key)>>, g)

EventId == counts.events + 1

NoteEvent ==
    /\ hist' = Append(hist, [k |-> "event", id |-> EventId])
    /\ counts' = [counts EXCEPT !.events = @ + 1]

EventReady == AtIdle /\ counts.events < MaxEvents

add_block(p, szB, custom, n_ips) ==
    LET block == [key |-> p, szB |-> szB,
                  actual_szB |-> IF custom THEN szB ELSE Usable(szB), n_ips |-> n_ips]
    IN  /\ block_table' = <<block>> \o block_table
        /\ out' = Append(out, out_add_block(block, EventId))

\* VG_(cli_malloc) returns a block that is not in use (which one does not
\* matter: the lowest free slot stands for it) or NULL
cli_malloc ==
    LET free == HeapSlots \ cli_live
    IN  { p \in free : \A q \in free : p <= q } \cup {0}

dg_malloc ==
    /\ EventReady
    /\ \E szB \in Sizes, p \in cli_malloc :
         IF p # 0
         THEN /\ cli_live' = cli_live \cup {p}
              /\ add_block(p, szB, FALSE, env.n_ips)
         ELSE UNCHANGED <<cli_live, block_table, out>>
    /\ NoteEvent
    /\ UNCHANGED <<out_bbr, global_bbdef_index, global_context_index, bbds, dgsbs,
                   debuginfo_table, debuginfo_dirty, code, objects, pc, phase, guest_vars>>
    /\ UNCHANGED <<buffer_vars, analyzer_vars>>

\* m * szB overflows SizeT (NULL is returned) or the product is allocated
dg_calloc ==
    /\ EventReady
    /\ \E overflow \in BOOLEAN, szB \in Sizes, p \in cli_malloc :
         IF ~overflow /\ p # 0
         THEN /\ cli_live' = cli_live \cup {p}
              /\ add_block(p, szB, FALSE, env.n_ips)
         ELSE UNCHANGED <<cli_live, block_table, out>>
    /\ NoteEvent
    /\ UNCHANGED <<out_bbr, global_bbdef_index, global_context_index, bbds, dgsbs,
                   debuginfo_table, debuginfo_dirty, code, objects, pc, phase, guest_vars>>
    /\ UNCHANGED <<buffer_vars, analyzer_vars>>

dg_memalign ==
    /\ EventReady
    /\ \E szB \in Sizes, p \in cli_malloc :
         IF p # 0
         THEN /\ cli_live' = cli_live \cup {p}
              /\ add_block(p, szB, FALSE, env.n_ips)
         ELSE UNCHANGED <<cli_live, block_table, out>>
    /\ NoteEvent
    /\ UNCHANGED <<out_bbr, global_bbdef_index, global_context_index, bbds, dgsbs,
                   debuginfo_table, debuginfo_dirty, code, objects, pc, phase, guest_vars>>
    /\ UNCHANGED <<buffer_vars, analyzer_vars>>

\* remove_block, followed by VG_(cli_free) when the block was found
dg_free ==
    /\ EventReady
    /\ \E p \in HeapSlots :
         IF Has(block_table, p)
         THEN /\ out' = Append(out, out_remove_block(First(block_table, p), EventId))
              /\ block_table' = RemoveFirst(block_table, p)
              /\ cli_live' = cli_live \ {p}
         ELSE UNCHANGED <<cli_live, block_table, out>>
    /\ NoteEvent
    /\ UNCHANGED <<out_bbr, global_bbdef_index, global_context_index, bbds, dgsbs,
                   debuginfo_table, debuginfo_dirty, code, objects, pc, phase, guest_vars>>
    /\ UNCHANGED <<buffer_vars, analyzer_vars>>

dg_realloc ==
    /\ EventReady
    /\ \E p \in HeapSlots, szB \in Sizes \cup {200}, new_p \in cli_malloc :
         IF ~Has(block_table, p)
         THEN /\ new_p = 0
              /\ UNCHANGED <<cli_live, block_table, out>>
         ELSE LET block == First(block_table, p)
                  i == CHOOSE i \in Lookup(block_table, p) : \A j \in Lookup(block_table, p) : i <= j
              IN  IF szB <= block.actual_szB
                  THEN /\ new_p = 0
                       /\ LET nb == [block EXCEPT !.szB = szB, !.n_ips = env.n_ips]
                          IN  /\ out' = out \o <<out_remove_block(block, EventId),
                                                 out_add_block(nb, EventId)>>
                              /\ block_table' = [block_table EXCEPT ![i] = nb]
                       /\ UNCHANGED cli_live
                  ELSE IF new_p = 0
                  THEN UNCHANGED <<cli_live, block_table, out>>
                  ELSE LET nb == [key |-> new_p, szB |-> szB, actual_szB |-> Usable(szB),
                                  n_ips |-> env.n_ips]
                       IN  /\ out' = out \o <<out_remove_block(block, EventId),
                                              out_add_block(nb, EventId)>>
                           /\ block_table' = <<nb>> \o RemoveFirst(block_table, p)
                           /\ cli_live' = cli_live \cup {new_p}
    /\ NoteEvent
    /\ UNCHANGED <<out_bbr, global_bbdef_index, global_context_index, bbds, dgsbs,
                   debuginfo_table, debuginfo_dirty, code, objects, pc, phase, guest_vars>>
    /\ UNCHANGED <<buffer_vars, analyzer_vars>>

Cap(n) == IF n > LabelCap THEN LabelCap ELSE n

RangeLenByte(type_len, label_len) == out_len_byte(2 * WordSize + type_len + label_len + 2)

EventLenByte_bug(label_len) == out_len_byte(label_len)

EventLenByte(label_len) == out_len_byte(label_len + 1)

\* VG_USERREQ__MALLOCLIKE_BLOCK, __FREELIKE_BLOCK, __TRACK_RANGE,
\* __UNTRACK_RANGE, __START_EVENT, __END_EVENT
dg_handle_client_request ==
    /\ EventReady
    /\ \/ \E p \in HeapSlots, szB \in Sizes : add_block(p, szB, TRUE, env.n_ips)
       \/ \E p \in HeapSlots :
            IF Has(block_table, p)
            THEN /\ out' = Append(out, out_remove_block(First(block_table, p), EventId))
                 /\ block_table' = RemoveFirst(block_table, p)
            ELSE UNCHANGED <<block_table, out>>
       \/ \E addr \in RangeAddrs, len \in Sizes :
            LET type == env.type
                label == env.label
                type_len == Cap(type.len)
                label_len == Cap(label.len)
            IN  /\ out' = Append(out, Rec(DG_R_TRACK_RANGE, RangeLenByte(type_len, label_len),
                                          <<out_word(addr), out_word(len),
                                            out_bytes(type.id, type_len), out_byte(0),
                                            out_bytes(label.id, label_len), out_byte(0)>>, EventId))
                /\ UNCHANGED block_table
       \/ \E addr \in RangeAddrs, len \in Sizes :
            /\ out' = Append(out, Rec(DG_R_UNTRACK_RANGE, out_len_byte(2 * WordSize),
                                      <<out_word(addr), out_word(len)>>, EventId))
            /\ UNCHANGED block_table
       \/ \E req \in {DG_R_START_EVENT, DG_R_END_EVENT} :
            LET label == env.label
                label_len == Cap(label.len)
            IN  /\ out' = Append(out, Rec(req, EventLenByte(label_len),
                                          <<out_bytes(label.id, label_len), out_byte(0)>>, EventId))
                /\ UNCHANGED block_table
    /\ NoteEvent
    /\ UNCHANGED <<out_bbr, global_bbdef_index, global_context_index, bbds, dgsbs,
                   debuginfo_table, debuginfo_dirty, code, objects, cli_live, pc, phase, guest_vars>>
    /\ UNCHANGED <<buffer_vars, analyzer_vars>>

(***************************************************************************)
(* Analyzer: record_parser and load                                        *)
(***************************************************************************)
RECURSIVE LEValue(_, _)
LEValue(bytes, i) == IF i > Len(bytes) THEN 0 ELSE bytes[i] + 256 * LEValue(bytes, i + 1)

\* record_parser::create: the size of the body that follows the prefix
CreateSize(type, pfx) ==
    IF type >= ShortTagLimit THEN 1
    ELSE IF pfx[1] < 255 THEN pfx[1]
    ELSE LEValue(SubSeq(pfx, 2, Len(pfx)), 1)

\* the bytes create reads after the type: none for a tag from 0x80 on,
\* one byte below 255, or 0xFF and the eight bytes of the size
CreateUsed(type, pfx) ==
    IF type >= ShortTagLimit THEN 0
    ELSE IF pfx[1] < 255 THEN 1
    ELSE 1 + WordSize64

\* the bytes create reads are the prefix that was written
Framed(r) == Len(r.pfx) >= 1 /\ CreateUsed(r.type, r.pfx) = Len(r.pfx)

\* the bytes of the record that the file holds after the type byte: all of
\* them, or r.have of them for the record in which the file ends
Have(r) == IF "have" \in DOMAIN r THEN r.have ELSE Len(r.pfx) + BodyBytes(r.body)

\* a parser handle: the record, its size, the next field and the offset;
\* left is the number of bytes of the body that fread can deliver; err is
\* "" or "short" (record_parser_error), "eof" (record_parser_feof or
\* record_parser_ferror), "content", "desync" (the bytes read are not the
\* field written there)
Parser(r) ==
    [r |-> r, size |-> CreateSize(r.type, r.pfx), i |-> 1, offset |-> 0, err |-> "", v |-> 0,
     left |-> Have(r) - CreateUsed(r.type, r.pfx)]

remain(rp) == rp.size - rp.offset

extract_bytes(rp, len, kind) ==
    IF rp.err # "" THEN rp
    ELSE IF len > rp.size - rp.offset THEN [rp EXCEPT !.err = "short"]
    ELSE IF len > rp.left - rp.offset THEN [rp EXCEPT !.err = "eof"]
    ELSE IF rp.i > Len(rp.r.body) THEN [rp EXCEPT !.err = "desync"]
    ELSE LET f == rp.r.body[rp.i]
         IN  IF f.w # len \/ f.k # kind THEN [rp EXCEPT !.err = "desync"]
             ELSE [rp EXCEPT !.i = @ + 1, !.offset = @ + len, !.v = f.v]

extract_byte(rp) == extract_bytes(rp, 1, "n")

extract_word(rp) == extract_bytes(rp, WordSize, "n")

\* reads characters up to and including the terminator
extract_string(rp) ==
    IF rp.err # "" THEN rp
    ELSE IF rp.i > Len(rp.r.body)
    THEN [rp EXCEPT !.err = IF rp.offset >= rp.size THEN "content"
                            ELSE IF rp.left <= rp.offset THEN "eof" ELSE "desync"]
    ELSE LET f == rp.r.body[rp.i]
             room == rp.size - rp.offset
             want == IF f.k # "s" THEN (IF room > 0 THEN 1 ELSE 0)
                     ELSE IF f.w >= room THEN room ELSE f.w + 1
         IN  IF want > rp.left - rp.offset THEN [rp EXCEPT !.err = "eof"]
             ELSE IF f.k = "s"
             THEN IF f.w >= rp.size - rp.offset THEN [rp EXCEPT !.err = "content"]
                  ELSE LET t == extract_byte([rp EXCEPT !.i = @ + 1, !.offset = @ + f.w])
                       IN  IF t.err # "" THEN t
                           ELSE IF t.v # 0 THEN [t EXCEPT !.err = "desync"]
                           ELSE [t EXCEPT !.v = [id |-> f.v, len |-> f.w]]
             ELSE IF rp.offset >= rp.size THEN [rp EXCEPT !.err = "content"]
             ELSE IF f.w = 1 /\ f.v = 0 THEN [rp EXCEPT !.i = @ + 1, !.offset = @ + 1, !.v = [id |-> "", len |-> 0]]
             ELSE [rp EXCEPT !.err = "desync"]

\* the bytes the first j numbers of a run take: words, bytes, or the
\* (word, byte) pairs of the instructions of a BBDEF
WordW(j) == j * WordSize

ByteW(j) == j

InstrW(j) == (j \div 2) * (WordSize + 1) + (j % 2) * WordSize

RunWidth(kind, j) ==
    CASE kind = "word" -> WordW(j)
      [] kind = "byte" -> ByteW(j)
      [] kind = "instr" -> InstrW(j)

\* k numbers read one after the other by extract_byte / extract_word
extract_many(rp, k, kind) ==
    LET cum(j) == RunWidth(kind, j)
        ok(j) == /\ rp.offset + cum(j) <= rp.size
                 /\ rp.offset + cum(j) <= rp.left
                 /\ rp.i + j - 1 <= Len(rp.r.body)
                 /\ rp.r.body[rp.i + j - 1].w = cum(j) - cum(j - 1)
                 /\ rp.r.body[rp.i + j - 1].k = "n"
        bad == { j \in 1..k : ~ok(j) }
        n == IF bad = {} THEN k ELSE (CHOOSE j \in bad : \A h \in bad : j <= h) - 1
        err == IF bad = {} THEN ""
               ELSE IF rp.offset + cum(n + 1) > rp.size THEN "short"
               ELSE IF rp.offset + cum(n + 1) > rp.left THEN "eof" ELSE "desync"
    IN  IF rp.err # "" THEN [rp |-> rp, vals |-> <<>>]
        ELSE [rp |-> [rp EXCEPT !.i = @ + n, !.offset = @ + cum(n), !.err = err],
              vals |-> [j \in 1..n |-> rp.r.body[rp.i + j - 1].v]]

\* rp->discard(): reads what is left of the body
discard(rp) ==
    IF rp.offset >= rp.size THEN rp
    ELSE IF rp.size > rp.left THEN [rp EXCEPT !.err = "eof"]
    ELSE [rp EXCEPT !.offset = rp.size]

\* rp->finish(): the whole body must have been consumed; what is left is
\* discarded before record_parser_length_error is thrown
finish(rp) ==
    IF rp.err # "" THEN rp
    ELSE IF rp.offset # rp.size
    THEN IF discard(rp).err = "eof" THEN discard(rp) ELSE [discard(rp) EXCEPT !.err = "content"]
    ELSE rp

\* the order of the keys of the multimap of rangemap
KeyLess(x, y) == x[1] < y[1] \/ (x[1] = y[1] /\ x[2] < y[2])

\* The multimap is the sequence of its entries [first, second, data] in the
\* order of iteration: by key <<first, second>>, equal keys in the order
\* they were inserted. An iterator is an index, end() is Len + 1.
KeyOf(e) == <<e.first, e.second>>

MapEnd(R) == Len(R) + 1

\* ranges.lower_bound(key): the first entry whose key is not below key
LowerBound(R, key) ==
    LET ge == { i \in 1..Len(R) : ~KeyLess(KeyOf(R[i]), key) }
    IN  IF ge = {} THEN MapEnd(R) ELSE CHOOSE i \in ge : \A h \in ge : i <= h

\* ranges.upper_bound(key): the first entry whose key is above key
UpperBound_bug(R, key) == LowerBound(R, key)

UpperBound(R, key) ==
    LET gt == { i \in 1..Len(R) : KeyLess(key, KeyOf(R[i])) }
    IN  IF gt = {} THEN MapEnd(R) ELSE CHOOSE i \in gt : \A h \in gt : i <= h

\* find: the entry after srch when it starts at addr
FindAtNext_bug(R, next, addr) == FALSE

FindAtNext(R, next, addr) == next # MapEnd(R) /\ R[next].first = addr

\* find: the entry before it when it holds addr
FindBefore(R, next, addr) ==
    next # 1 /\ R[next - 1].first <= addr /\ R[next - 1].second > addr

rangemap_find(R, addr) ==
    LET next == UpperBound(R, <<addr, addr>>)
    IN  IF FindAtNext(R, next, addr) THEN next
        ELSE IF FindBefore(R, next, addr) THEN next - 1
        ELSE MapEnd(R)

\* insert: the entry at lower_bound starts before the end of the new range
ThrowsHigh_bug(R, high, b) == high # MapEnd(R) /\ R[high].first <= b

ThrowsHigh(R, high, b) == high # MapEnd(R) /\ R[high].first < b

\* insert: the entry before it ends after the start of the new range
ThrowsLow_bug(R, high, a) == FALSE

ThrowsLow(R, high, a) == high # 1 /\ R[high - 1].second > a

InsertAt(R, i, e) == SubSeq(R, 1, i - 1) \o <<e>> \o SubSeq(R, i, Len(R))

\* insert(start, end, data): threw tells of std::invalid_argument
rangemap_insert(R, a, b, data) ==
    LET high == LowerBound(R, <<a, b>>)
    IN  IF a > b \/ ThrowsHigh(R, high, b) \/ ThrowsLow(R, high, a)
        THEN [threw |-> TRUE, ranges |-> R]
        ELSE [threw |-> FALSE,
              ranges |-> InsertAt(R, UpperBound(R, <<a, b>>),
                                  [first |-> a, second |-> b, data |-> data])]

\* erase: high walks over the entries that start at addr
EraseHigh_bug(R, high, addr) ==
    IF high # MapEnd(R) /\ R[high].first = addr THEN high + 1 ELSE high

RECURSIVE EraseHigh(_, _, _)
EraseHigh(R, high, addr) ==
    IF high # MapEnd(R) /\ R[high].first = addr THEN EraseHigh(R, high + 1, addr) ELSE high

\* erase(addr): ans is the number of entries removed
rangemap_erase(R, addr) ==
    LET low == LowerBound(R, <<addr, addr>>)
        high == EraseHigh(R, low, addr)
    IN  [ans |-> high - low, ranges |-> SubSeq(R, 1, low - 1) \o SubSeq(R, high, Len(R))]

\* a map<HWord, size_t> with no key
NoPages == [q \in {} |-> 0]

\* The state of load: A.status is "ok", or "exit" after exit(1), or "abort"
\* after an exception that no handler of load catches (std::terminate), or
\* "desync" when the bytes no longer line up with the records written;
\* or "end" after the loop, or "crash" when the program dies after it;
\* block_map is a rangemap of the blocks, a pointer to a block is its
\* position in block_storage, the multisets active_events and
\* active_ranges are sequences, page_map and rev_page_map are functions.
LoadInit ==
    [first |-> TRUE, iseq |-> 0, dseq |-> 0, bbdefs |-> <<>>, contexts |-> <<>>, bbruns |-> <<>>,
     block_map |-> <<>>, block_storage |-> <<>>, errors |-> 0, status |-> "ok",
     chosen_events |-> {}, chosen_ranges |-> {}, malloc_only |-> FALSE,
     active_events |-> <<>>, active_ranges |-> <<>>, page_map |-> NoPages, rev_page_map |-> NoPages]

\* the options of the command line: --events, --ranges and --malloc-only
NoOptions == [events |-> {}, ranges |-> {}, malloc_only |-> FALSE]

\* parse_opts: the sets chosen with the options, filled before load is called
parse_opts(A, opts) ==
    [A EXCEPT !.chosen_events = opts.events, !.chosen_ranges = opts.ranges,
              !.malloc_only = opts.malloc_only]

DG_VIEW_PAGE_SIZE == 4096

page_round_down(x) == x - (x % DG_VIEW_PAGE_SIZE)

\* multiset::erase(multiset::find(x)): one occurrence of x leaves, if any
RECURSIVE EraseOne(_, _)
EraseOne(s, x) ==
    IF s = <<>> THEN <<>>
    ELSE IF Head(s) = x THEN Tail(s)
    ELSE <<Head(s)>> \o EraseOne(Tail(s), x)

\* find_block: the block of the range that find returns, NULL is <<>>
find_block_bug(A, addr) == <<>>

find_block(A, addr) ==
    LET pos == rangemap_find(A.block_map, addr)
    IN  IF pos = MapEnd(A.block_map) THEN <<>> ELSE <<A.block_map[pos].data>>

\* keep_access: the test of an active range against the access
RangeMatch(r, addr, size) == addr + size > r[1] /\ addr < r[1] + r[2]

\* keep_access: no event of the chosen ones is active
EventsIdle_bug(A) == FALSE

EventsIdle(A) == A.chosen_events # {} /\ A.active_events = <<>>

\* keep_access: the access is outside every block
OutsideBlocks(A, addr) == A.malloc_only /\ find_block(A, addr) = <<>>

keep_access(A, addr, size) ==
    LET matched ==
          IF EventsIdle(A) THEN FALSE
          ELSE IF A.chosen_ranges # {}
          THEN \E i \in 1..Len(A.active_ranges) : RangeMatch(A.active_ranges[i], addr, size)
          ELSE TRUE
    IN  matched /\ ~OutsideBlocks(A, addr)

\* catch (record_parser_content_error &): the message, then rp->discard(),
\* whose exception no handler catches
ContentError(A, rp) ==
    IF discard(rp).err = "eof" THEN [A EXCEPT !.status = "abort"]
    ELSE [A EXCEPT !.errors = @ + 1]

\* the end of the try block for a record parsed up to rp: A2 is the state
\* with the effects of the record
Outcome(A, rp, A2) ==
    LET f == finish(rp)
    IN  IF rp.err \in {"short", "eof"} THEN [A EXCEPT !.status = "exit"]
        ELSE IF rp.err = "desync" THEN [A EXCEPT !.status = "desync"]
        ELSE IF rp.err = "content" THEN ContentError(A, rp)
        ELSE IF f.err = "eof" THEN [A2 EXCEPT !.status = "exit"]
        ELSE IF f.err = "content" THEN ContentError(A2, f)
        ELSE A2

LoadHeader(A, rp0) ==
    IF rp0.r.type # DG_R_HEADER THEN [A EXCEPT !.status = "exit"]
    ELSE LET s == extract_string(rp0)
         IN  IF s.err # "" THEN Outcome(A, s, A)
             ELSE IF s.v # [id |-> "DATAGRIND1", len |-> 10] THEN [A EXCEPT !.status = "exit"]
             ELSE LET version == extract_byte(s)
                      endian == extract_byte(version)
                      wordsize == extract_byte(endian)
                  IN  IF wordsize.err # "" THEN Outcome(A, wordsize, A)
                      ELSE IF wordsize.v # WordSize THEN ContentError(A, wordsize)
                      ELSE Outcome(A, wordsize, [A EXCEPT !.first = FALSE])

LoadBBDef(A, rp0) ==
    LET n_instrs == extract_byte(rp0)
        n_accesses == extract_word(n_instrs)
    IN  IF n_accesses.err # "" THEN Outcome(A, n_accesses, A)
        ELSE IF n_instrs.v = 0 THEN ContentError(A, n_accesses)
        ELSE LET I == extract_many(n_accesses, 2 * n_instrs.v, "instr")
                 X == extract_many(I.rp, 3 * n_accesses.v, "byte")
                 m == Len(X.vals) \div 3
                 bad == \E a \in 1..m : X.vals[3 * a] >= n_instrs.v
                 bbd == [instr_addrs |-> [i \in 1..n_instrs.v |-> I.vals[2 * i - 1]],
                         accesses |-> [a \in 1..n_accesses.v |->
                                          [dir |-> X.vals[3 * a - 2], size |-> X.vals[3 * a - 1],
                                           iseq |-> X.vals[3 * a]]]]
             IN  IF I.rp.err # "" THEN Outcome(A, I.rp, A)
                 ELSE IF bad THEN ContentError(A, X.rp)
                 ELSE IF X.rp.err # "" THEN Outcome(A, X.rp, A)
                 ELSE Outcome(A, X.rp, [A EXCEPT !.bbdefs = Append(@, bbd)])

LoadContext(A, rp0) ==
    LET bbdef_index == extract_word(rp0)
        n_stack == extract_byte(bbdef_index)
    IN  IF n_stack.err # "" THEN Outcome(A, n_stack, A)
        ELSE IF n_stack.v = 0 THEN ContentError(A, n_stack)
        ELSE LET S == extract_many(n_stack, n_stack.v, "word")
             IN  IF S.rp.err # "" THEN Outcome(A, S.rp, A)
                 ELSE IF bbdef_index.v >= Len(A.bbdefs) THEN ContentError(A, S.rp)
                 ELSE Outcome(A, S.rp, [A EXCEPT !.contexts =
                                           Append(@, [bbdef_index |-> bbdef_index.v, stack |-> S.vals])])

\* iseq += n_instrs and dseq += n_addrs follow the test of keep_any, for
\* the bbruns that are kept and for those that are not
SeqAfter_bug(seq, n, keep_any) == IF keep_any THEN seq + n ELSE seq

SeqAfter(seq, n, keep_any) == seq + n

LoadBBRun(A, rp0) ==
    LET context_index == extract_word(rp0)
    IN  IF context_index.err # "" THEN Outcome(A, context_index, A)
        ELSE IF context_index.v >= Len(A.contexts) THEN ContentError(A, context_index)
        ELSE LET ctx == A.contexts[context_index.v + 1]
                 bbd == A.bbdefs[ctx.bbdef_index + 1]
                 n_instrs == extract_byte(context_index)
                 n_addrs == remain(n_instrs) \div WordSize
             IN  IF n_instrs.err # "" THEN Outcome(A, n_instrs, A)
                 ELSE IF n_addrs > Len(bbd.accesses) THEN ContentError(A, n_instrs)
                 ELSE LET S == extract_many(n_instrs, n_addrs, "word")
                          kept == [i \in 1..n_addrs |-> keep_access(A, S.vals[i], bbd.accesses[i].size)]
                          pages == { page_round_down(S.vals[i]) : i \in { h \in 1..n_addrs : kept[h] } }
                          bbr == [iseq_start |-> A.iseq, dseq_start |-> A.dseq,
                                  context_index |-> context_index.v, n_addrs |-> n_addrs,
                                  blocks |-> [i \in 1..n_addrs |->
                                                IF kept[i] THEN find_block(A, S.vals[i]) ELSE <<>>],
                                  addrs |-> [i \in 1..n_addrs |-> IF kept[i] THEN S.vals[i] ELSE 0]]
                          keep_any == \E i \in 1..n_addrs : kept[i]
                      IN  IF S.rp.err # "" THEN Outcome(A, S.rp, A)
                          ELSE Outcome(A, S.rp,
                                       [A EXCEPT !.bbruns = IF keep_any THEN Append(@, bbr) ELSE @,
                                                 !.page_map = [q \in DOMAIN @ \cup pages |-> 0],
                                                 !.iseq = SeqAfter(@, n_instrs.v, keep_any),
                                                 !.dseq = SeqAfter(@, n_addrs, keep_any)])

\* block_map.insert(addr, addr + size, block): std::invalid_argument is
\* caught by neither handler of load
LoadBlock(A, S, addr, size) ==
    IF S.rp.err # "" THEN Outcome(A, S.rp, A)
    ELSE LET block == [addr |-> addr, size |-> size, stack |-> S.vals]
             I == rangemap_insert(A.block_map, addr, addr + size, Len(A.block_storage) + 1)
         IN  IF I.threw THEN [A EXCEPT !.status = "abort", !.block_storage = Append(@, block)]
             ELSE Outcome(A, S.rp, [A EXCEPT !.block_map = I.ranges,
                                             !.block_storage = Append(@, block)])

\* TRACK_RANGE: a range of a chosen label enters active_ranges
LoadTrackRange(A, addr, size, label) ==
    IF label.err = "" /\ label.v \in A.chosen_ranges
    THEN Outcome(A, label, [A EXCEPT !.active_ranges = Append(@, <<addr, size>>)])
    ELSE Outcome(A, label, A)

\* START_EVENT and END_EVENT of a chosen label
LoadEvent(A, type, label) ==
    IF label.err = "" /\ label.v \in A.chosen_events
    THEN Outcome(A, label, [A EXCEPT !.active_events =
                               IF type = DG_R_START_EVENT THEN Append(@, label.v)
                               ELSE EraseOne(@, label.v)])
    ELSE Outcome(A, label, A)

\* the other records: the ranges, the heap blocks and the events
LoadOther(A, rp0) ==
    LET t == rp0.r.type
        w1 == extract_word(rp0)
        w2 == extract_word(w1)
        w3 == extract_word(w2)
    IN  CASE t = DG_R_TRACK_RANGE ->
               LoadTrackRange(A, w1.v, w2.v, extract_string(extract_string(w2)))
          [] t = DG_R_UNTRACK_RANGE ->
               Outcome(A, w2, [A EXCEPT !.active_ranges = EraseOne(@, <<w1.v, w2.v>>)])
          [] t = DG_R_MALLOC_BLOCK ->
               IF w3.err # "" THEN Outcome(A, w3, A)
               ELSE LoadBlock(A, extract_many(w3, w3.v, "word"), w1.v, w2.v)
          [] t = DG_R_FREE_BLOCK ->
               Outcome(A, w1, [A EXCEPT !.block_map = rangemap_erase(@, w1.v).ranges])
          [] t \in {DG_R_START_EVENT, DG_R_END_EVENT} -> LoadEvent(A, t, extract_string(rp0))
          [] t = DG_R_TEXT_AVMA -> Outcome(A, extract_string(w1), A)
          [] OTHER -> ContentError(A, rp0)

\* one turn of the loop of load: create, outside the try block, throws when
\* the file ends in the length prefix; a first record of another type is
\* refused before any of its body is read
LoadRecord(A, r) ==
    IF Have(r) < CreateUsed(r.type, r.pfx) THEN [A EXCEPT !.status = "abort"]
    ELSE IF A.first /\ r.type # DG_R_HEADER THEN [A EXCEPT !.status = "exit"]
    ELSE IF ~Framed(r) THEN [A EXCEPT !.status = "desync"]
    ELSE LET rp == Parser(r)
         IN  IF A.first THEN LoadHeader(A, rp)
             ELSE CASE r.type = DG_R_HEADER -> ContentError(A, rp)
                    [] r.type = DG_R_BBDEF -> LoadBBDef(A, rp)
                    [] r.type = DG_R_CONTEXT -> LoadContext(A, rp)
                    [] r.type = DG_R_BBRUN -> LoadBBRun(A, rp)
                    [] OTHER -> LoadOther(A, rp)

RECURSIVE LoadFrom(_, _, _)
LoadFrom(A, file, i) ==
    IF i > Len(file) \/ A.status # "ok" THEN A ELSE LoadFrom(LoadRecord(A, file[i]), file, i + 1)

load(file) == LoadFrom(LoadInit, file, 1)

\* the loop that follows fclose: the pages in ascending order get
\* consecutive bases
RemappedBase_bug(pm, q) == DG_VIEW_PAGE_SIZE * Cardinality({ h \in DOMAIN pm : h <= q })

RemappedBase(pm, q) == DG_VIEW_PAGE_SIZE * Cardinality({ h \in DOMAIN pm : h < q })

Remapped(pm) == [q \in DOMAIN pm |-> RemappedBase(pm, q)]

\* rev_page_map[i->second] = i->first
Reversed(pm) ==
    [d \in { pm[q] : q \in DOMAIN pm } |-> CHOOSE q \in DOMAIN pm : pm[q] = d]

\* the printf after the loop reads bbruns.back(): with no bbrun kept the
\* behaviour is undefined, the program goes on or dies
AfterLoop(A) == IF A.bbruns = <<>> THEN {"end", "crash"} ELSE {"end"}

\* remap_address: assert is FALSE when the assert fails
remap_address(A, a) ==
    LET base == page_round_down(a)
    IN  IF base \notin DOMAIN A.page_map THEN [assert |-> FALSE, v |-> 0]
        ELSE [assert |-> TRUE, v |-> (a - base) + A.page_map[base]]

\* the access at position j of a bbrun, as nearest_access materialises it
Materialise(A, bbr, j) ==
    LET ctx == A.contexts[bbr.context_index + 1]
        bbd == A.bbdefs[ctx.bbdef_index + 1]
        bbda == bbd.accesses[j]
    IN  [addr |-> bbr.addrs[j], dir |-> bbda.dir, size |-> bbda.size,
         iaddr |-> bbd.instr_addrs[bbda.iseq + 1], iseq |-> bbr.iseq_start + bbda.iseq]

RECURSIVE TuplesFrom(_, _)
TuplesFrom(A, i) ==
    IF i > Len(A.bbruns) THEN <<>>
    ELSE [j \in 1..A.bbruns[i].n_addrs |-> Materialise(A, A.bbruns[i], j)] \o TuplesFrom(A, i + 1)

Tuples(A) == TuplesFrom(A, 1)

\* Scores are kept squared, which leaves their order as it is; HUGE_VAL is
\* above every score.
HUGE_VAL == 0 - 1

ScoreBelow(x, y) == x # HUGE_VAL /\ (y = HUGE_VAL \/ x < y)

\* hypot(addr_score, cur_iseq - iseq) of access i of a bbrun
AccessScore(A, bbr, i, addr, iseq, ratio) ==
    LET bbd == A.bbdefs[A.contexts[bbr.context_index + 1].bbdef_index + 1]
        addr_score == (bbr.addrs[i] - addr) * ratio
        cur_iseq == bbr.iseq_start + bbd.accesses[i].iseq
    IN  addr_score * addr_score + (cur_iseq - iseq) * (cur_iseq - iseq)

\* nearest_access_bbrun: the loop from position i on, best the pair so far;
\* the positions with address 0 are passed over
RECURSIVE ScanBBRun(_, _, _, _, _, _, _)
ScanBBRun(A, bbr, i, best, addr, iseq, ratio) ==
    IF i > bbr.n_addrs THEN best
    ELSE IF bbr.addrs[i] # 0 /\ ScoreBelow(AccessScore(A, bbr, i, addr, iseq, ratio), best.score)
    THEN ScanBBRun(A, bbr, i + 1, [score |-> AccessScore(A, bbr, i, addr, iseq, ratio), i |-> i],
                   addr, iseq, ratio)
    ELSE ScanBBRun(A, bbr, i + 1, best, addr, iseq, ratio)

nearest_access_bbrun(A, bbr, addr, iseq, ratio) ==
    ScanBBRun(A, bbr, 1, [score |-> HUGE_VAL, i |-> 1], addr, iseq, ratio)

\* iterators into bbruns are positions, bbruns.end() is Len + 1
RunsEnd(A) == Len(A.bbruns) + 1

\* lower_bound(bbruns.begin(), bbruns.end(), iseq, compare_bbrun_iseq())
lower_bound(A, iseq) ==
    LET ge == { k \in 1..Len(A.bbruns) : ~(A.bbruns[k].iseq_start < iseq) }
    IN  IF ge = {} THEN RunsEnd(A) ELSE CHOOSE k \in ge : \A h \in ge : k <= h

\* forw->iseq_start > iseq + best_score
ForwStop(start, iseq, best_score) ==
    best_score # HUGE_VAL /\ start > iseq /\ (start - iseq) * (start - iseq) > best_score

\* back->iseq_start <= iseq - best_score
BackStop(start, iseq, best_score) ==
    best_score # HUGE_VAL /\ start <= iseq /\ (iseq - start) * (iseq - start) >= best_score

\* the bbrun at k is examined: best, best_i and best_score follow it when
\* it scores below best_score
Examine(A, S, k, q) ==
    LET sub == nearest_access_bbrun(A, A.bbruns[k], q.addr, q.iseq, q.ratio)
    IN  IF ScoreBelow(sub.score, S.best_score)
        THEN [S EXCEPT !.best_score = sub.score, !.best_i = sub.i, !.best = k]
        ELSE S

\* the forward half of a turn of the loop of nearest_access
ForwHalf(A, S, q) ==
    IF S.forw = RunsEnd(A) THEN S
    ELSE IF ForwStop(A.bbruns[S.forw].iseq_start, q.iseq, S.best_score)
    THEN [S EXCEPT !.forw = RunsEnd(A)]
    ELSE [Examine(A, S, S.forw, q) EXCEPT !.forw = S.forw + 1]

\* the backward half: back is dereferenced before it is moved, so at
\* bbruns.end() the word read is q.garbage, whatever lies behind the vector
BackHalf(A, S, q) ==
    IF S.back = 1 THEN S
    ELSE LET atEnd == S.back = RunsEnd(A)
             start == IF atEnd THEN q.garbage ELSE A.bbruns[S.back].iseq_start
             T == [S EXCEPT !.end_read = @ \/ atEnd]
         IN  IF BackStop(start, q.iseq, S.best_score) THEN [T EXCEPT !.back = 1]
             ELSE [Examine(A, T, S.back - 1, q) EXCEPT !.back = S.back - 1]

RECURSIVE NearLoop(_, _, _)
NearLoop(A, S, q) ==
    IF S.forw = RunsEnd(A) /\ S.back = 1 THEN S
    ELSE NearLoop(A, BackHalf(A, ForwHalf(A, S, q), q), q)

\* nearest_access: best_i 0 is the variable before any assignment; found
\* tells of best != bbruns.end(), uninit of best_i read unassigned
nearest_access(A, q) ==
    LET split == lower_bound(A, q.iseq)
        S == NearLoop(A, [forw |-> split, back |-> split, best |-> split, best_i |-> 0,
                          best_score |-> HUGE_VAL, end_read |-> FALSE], q)
        found == S.best # RunsEnd(A)
    IN  [found |-> found, best |-> S.best, best_i |-> S.best_i, score |-> S.best_score,
         end_read |-> S.end_read, uninit |-> found /\ S.best_i = 0]

(***************************************************************************)
(* The Recorder                                                            *)
(***************************************************************************)
Next ==
    \/ dg_instrument
    \/ dg_track_new_mem_mmap_or_startup
    \/ GuestEnter
    \/ GuestIMark
    \/ GuestExit
    \/ GuardFalse
    \/ trace_bb_start
    \/ trace_access
    \/ trace_update_instrs
    \/ dg_malloc
    \/ dg_calloc
    \/ dg_memalign
    \/ dg_free
    \/ dg_realloc
    \/ dg_handle_client_request
    \/ dg_fini

Spec == Init /\ [][Next]_vars

\* the BBDef / BBRun machinery alone: no heap or client-request events
InitBB == InitWith(RunSuperBlocks, ProfilesBB)

NextBB ==
    \/ dg_instrument
    \/ dg_discard_superblock_info
    \/ GuestEnter
    \/ GuestIMark
    \/ GuestExit
    \/ GuardFalse
    \/ trace_bb_start
    \/ trace_access
    \/ trace_update_instrs
    \/ dg_fini

SpecBB == InitBB /\ [][NextBB]_vars

\* instrumentation alone, over the whole family of superblocks
InitInstr == InitWith(SuperBlocks, ProfilesBB)

NextInstr ==
    \/ dg_instrument
    \/ dg_discard_superblock_info
    \/ dg_fini

SpecInstr == InitInstr /\ [][NextInstr]_vars

(***************************************************************************)
(* The length prefix alone: out_length against record_parser::create       *)
(***************************************************************************)
Tags == { DG_R_HEADER, DG_R_TEXT_AVMA, ShortTagLimit - 1, ShortTagLimit, 255 }

Lengths == 0..MaxLenInput \cup { 65535, 65536, 16777216, 2147483647 }

InitLen == InitRecorder /\ NoBuffer /\ NotLoading /\ env \in [tag : Tags, len : Lengths] /\ objects = <<>>

\* the Recorder writes the type and the length of a record
WriteLength ==
    /\ Len(out) = 1
    /\ out' = Append(out, Rec(env.tag, out_length(env.len), <<>>, 0))
    /\ UNCHANGED <<recorder_vars, code, objects, cli_live, pc, phase, guest_vars, hist, counts>>
    /\ UNCHANGED <<buffer_vars, analyzer_vars>>

\* record_parser::create reads them back
ReadLength ==
    /\ Len(out) = 2
    /\ hist = <<>>
    /\ hist' = <<[k |-> "create", size |-> CreateSize(out[2].type, out[2].pfx),
                  used |-> CreateUsed(out[2].type, out[2].pfx)]>>
    /\ UNCHANGED <<out, recorder_vars, code, objects, cli_live, pc, phase, guest_vars, counts>>
    /\ UNCHANGED <<buffer_vars, analyzer_vars>>

NextLen == WriteLength \/ ReadLength

SpecLen == InitLen /\ [][NextLen]_vars

(***************************************************************************)
(* The output buffer alone: any appends and flushes, then dg_fini          *)
(***************************************************************************)
\* the byte counts out_bytes is called with
AppendCounts == { WordSize, LabelCap, OUT_BUF_SIZE - 1, OUT_BUF_SIZE, OUT_BUF_SIZE + 1 }

\* the bytes of the HEADER record, appended by prepare_out_file
HeaderSeg == [id |-> 0, n |-> 2 + MagicLen + 3]

InitOut ==
    /\ InitRecorder
    /\ NotLoading
    /\ out_buf = <<HeaderSeg>>
    /\ out_buf_used = HeaderSeg.n
    /\ appended = <<HeaderSeg>>
    /\ env = [counts |-> AppendCounts]
    /\ objects = <<>>

CanAppend == AtIdle /\ Len(appended) <= MaxAppends

\* what an append leaves in the variables of the buffer
Appended(B, seg) ==
    /\ out_buf' = B.buf
    /\ out_buf_used' = B.used
    /\ out_file' = B.file
    /\ oob' = B.oob
    /\ phase' = IF B.crash THEN "crash" ELSE phase
    /\ appended' = Append(appended, seg)
    /\ UNCHANGED <<out, recorder_vars, code, objects, cli_live, pc, guest_vars, hist, counts,
                   analyzer_vars>>

AppendByte ==
    /\ CanAppend
    /\ \E how \in Outcomes :
         Appended(buf_out_byte(Buffer, [id |-> Len(appended), n |-> 1], how),
                  [id |-> Len(appended), n |-> 1])

AppendBytes ==
    /\ CanAppend
    /\ \E count \in env.counts, how \in Outcomes :
         Appended(buf_out_bytes(Buffer, [id |-> Len(appended), n |-> count], how),
                  [id |-> Len(appended), n |-> count])

Flush ==
    /\ AtIdle
    /\ out_buf # <<>>
    /\ out_file' = out_flush(Buffer).file
    /\ out_buf' = out_flush(Buffer).buf
    /\ out_buf_used' = out_flush(Buffer).used
    /\ UNCHANGED <<out, recorder_vars, code, objects, cli_live, pc, phase, guest_vars, hist,
                   counts, appended, oob, analyzer_vars>>

NextOut == AppendByte \/ AppendBytes \/ Flush \/ dg_fini

SpecOut == InitOut /\ [][NextOut]_vars

(***************************************************************************)
(* The Analyzer alone: load on files of any writer of the format           *)
(***************************************************************************)
\* a record laid out by the frame rule: the prefix is the length of the body
Whole(type, body) == Rec(type, out_length(BodyBytes(body)), body, 0)

HeaderWith(sig, wordsize) ==
    Whole(DG_R_HEADER, <<out_bytes(sig, MagicLen - 1), out_byte(0),
                         out_byte(1), out_byte(0), out_byte(wordsize)>>)

\* a HEADER whose body ends before the terminator of the signature
HeaderNoTerm == Whole(DG_R_HEADER, <<out_bytes("DATAGRINDX", MagicLen - 1)>>)

Block(addr, size) == out_add_block([key |-> addr, szB |-> size, n_ips |-> 1], 0)

FreeOf(addr) == out_remove_block([key |-> addr], 0)

\* FREE_BLOCK with four bytes of body where a word is read
TooShort == Rec(DG_R_FREE_BLOCK, out_length(4), <<[k |-> "n", w |-> 4, v |-> 256]>>, 0)

\* FREE_BLOCK with a second word
TooLong == Whole(DG_R_FREE_BLOCK, <<out_word(256), out_word(0)>>)

\* START_EVENT whose label has no terminator
NoTerminator == Whole(DG_R_START_EVENT, <<out_bytes("a", 3)>>)

\* CONTEXT naming a BBDEF that was never defined
BadIndex == Whole(DG_R_CONTEXT, <<out_word(5), out_byte(1), out_word(7001)>>)

EmptyBB == Whole(DG_R_BBDEF, <<out_byte(0), out_word(0)>>)

\* BBDEF with one instruction and an access of instruction 1
BadIseq ==
    Whole(DG_R_BBDEF, <<out_byte(1), out_word(1), out_word(4096), out_byte(4),
                        out_byte(DG_ACC_READ), out_byte(4), out_byte(1)>>)

StartEvent == Whole(DG_R_START_EVENT, <<out_bytes("a", 3), out_byte(0)>>)

\* tags load has no case for: the legacy READ, the last tag with a length
\* prefix read by create, the first without, and the last tag
UnknownTags == { 1, ShortTagLimit - 1, ShortTagLimit, 255 }

Unknown(tag) == Whole(tag, <<out_byte(4), out_word(4096)>>)

ContentBad == { TooShort, TooLong, NoTerminator, BadIndex, EmptyBB, BadIseq }

FirstRecs ==
    { HeaderRec, HeaderWith("DATAGRIND1", WordSize \div 2), HeaderWith("DATAGRIND2", WordSize),
      HeaderNoTerm, Block(256, 24) }

LaterRecs ==
    ContentBad \cup { Unknown(t) : t \in UnknownTags }
      \cup { HeaderRec, StartEvent, Block(256, 24), Block(264, 24), FreeOf(256) }

MaxLater == 2

\* the file ends after have bytes of its last record, the type not counted
CutLast(f, have) ==
    [f EXCEPT ![Len(f)] = [type |-> @.type, pfx |-> @.pfx, body |-> @.body, g |-> @.g,
                           have |-> have]]

FilesUpTo(later) ==
    { <<>> } \cup
    { <<h>> \o t : h \in FirstRecs, t \in UNION { [1..n -> LaterRecs] : n \in 0..later } }

WholeFiles == FilesUpTo(MaxLater)

Files ==
    WholeFiles \cup
    { CutLast(f, have) : f \in WholeFiles \ { <<>> }, have \in 0..2 }

InitLoad ==
    /\ InitRecorder
    /\ NoBuffer
    /\ env = [later |-> MaxLater, opts |-> NoOptions]
    /\ objects = <<>>
    /\ trace \in Files
    /\ next_rec = 0
    /\ view = NotOpen
    /\ NoRanges
    /\ NoPool

\* load: fopen and the initial values of first and the tables
LoadOpen ==
    /\ view = NotOpen
    /\ view' = parse_opts(LoadInit, env.opts)
    /\ next_rec' = 1
    /\ UNCHANGED <<out, recorder_vars, code, objects, cli_live, pc, phase, guest_vars, hist,
                   counts, buffer_vars, trace, rangemap_vars, pool>>

\* one turn of the loop: create returns a parser and the record is handled
LoadTurn ==
    /\ view.status = "ok"
    /\ next_rec \in 1..Len(trace)
    /\ view' = LoadRecord(view, trace[next_rec])
    /\ next_rec' = next_rec + 1
    /\ UNCHANGED <<out, recorder_vars, code, objects, cli_live, pc, phase, guest_vars, hist,
                   counts, buffer_vars, trace, rangemap_vars, pool>>

\* create meets the end of the file where a type is read: NULL, fclose,
\* then the pages are numbered and the totals printed
LoadClose ==
    /\ view.status = "ok"
    /\ next_rec = Len(trace) + 1
    /\ \E after \in AfterLoop(view) :
         view' = [view EXCEPT !.status = after,
                              !.page_map = Remapped(@),
                              !.rev_page_map = Reversed(Remapped(view.page_map))]
    /\ UNCHANGED <<out, recorder_vars, code, objects, cli_live, pc, phase, guest_vars, hist,
                   counts, buffer_vars, trace, next_rec, rangemap_vars, pool>>

\* main after load: with no bbrun the message and return 0 ("none"),
\* otherwise the window is set up ("shown")
main ==
    /\ view.status = "end"
    /\ view' = [view EXCEPT !.status = IF view.bbruns = <<>> THEN "none" ELSE "shown"]
    /\ UNCHANGED <<out, recorder_vars, code, objects, cli_live, pc, phase, guest_vars, hist,
                   counts, buffer_vars, trace, next_rec, rangemap_vars, pool>>

NextLoad == LoadOpen \/ LoadTurn \/ LoadClose \/ main

SpecLoad == InitLoad /\ [][NextLoad]_vars

(***************************************************************************)
(* The Analyzer with filters: load on well-formed traces under the options *)
(***************************************************************************)
\* one instruction with a READ of four bytes and a WRITE of one byte
TwoAccessBB ==
    Whole(DG_R_BBDEF, <<out_byte(1), out_word(2), out_word(4096), out_byte(4),
                        out_byte(DG_ACC_READ), out_byte(4), out_byte(0),
                        out_byte(DG_ACC_WRITE), out_byte(1), out_byte(0)>>)

OneContext == Whole(DG_R_CONTEXT, <<out_word(0), out_byte(1), out_word(7001)>>)

Run(addrs) ==
    Whole(DG_R_BBRUN, <<out_word(0), out_byte(1)>> \o [i \in 1..Len(addrs) |-> out_word(addrs[i])])

Track(addr, size, label) ==
    Whole(DG_R_TRACK_RANGE, <<out_word(addr), out_word(size), out_bytes("int", 3), out_byte(0),
                              out_bytes(label, 1), out_byte(0)>>)

Untrack(addr, size) == Whole(DG_R_UNTRACK_RANGE, <<out_word(addr), out_word(size)>>)

Event(type, label) == Whole(type, <<out_bytes(label, 1), out_byte(0)>>)

Label(id) == [id |-> id, len |-> 1]

\* a first page, the last bytes of it, and a third page
ViewAddrs == { <<4>>, <<4094, 6>>, <<8200>> }

\* an empty range inside the access at 4, a range two labels share, and a
\* range from the second page into the third
TrackRecs ==
    { Track(5, 0, "x"), Track(4, 4, "x"), Track(4, 4, "y"), Untrack(4, 4), Track(4096, 4200, "x") }

EventRecs == { Event(DG_R_START_EVENT, "a"), Event(DG_R_END_EVENT, "a"), Event(DG_R_START_EVENT, "b") }

BlockRecs == { Block(4, 4), Block(4096, 8), FreeOf(4) }

ViewRecs == { Run(addrs) : addrs \in ViewAddrs } \cup TrackRecs \cup EventRecs \cup BlockRecs

MaxViewLater == 3

ViewFiles ==
    { <<HeaderRec, TwoAccessBB, OneContext>> \o t :
        t \in UNION { [1..n -> ViewRecs] : n \in 0..MaxViewLater } }

OptionSets ==
    [events : { {}, {Label("a")} }, ranges : { {}, {Label("x")} }, malloc_only : BOOLEAN]

InitView ==
    /\ InitRecorder
    /\ NoBuffer
    /\ \E opts \in OptionSets : env = [later |-> MaxViewLater, opts |-> opts]
    /\ objects = <<>>
    /\ trace \in ViewFiles
    /\ next_rec = 0
    /\ view = NotOpen
    /\ NoRanges
    /\ NoPool

SpecView == InitView /\ [][NextLoad]_vars

\* the same with accesses at the address 0 among the BBRUN records
ZeroAddrs == { <<0>>, <<0, 6>> }

MaxZeroLater == 2

ZeroFiles ==
    { <<HeaderRec, TwoAccessBB, OneContext>> \o t :
        t \in UNION { [1..n -> ViewRecs \cup { Run(addrs) : addrs \in ZeroAddrs }] :
                        n \in 0..MaxZeroLater } }

InitZero ==
    /\ InitRecorder
    /\ NoBuffer
    /\ \E opts \in OptionSets : env = [later |-> MaxZeroLater, opts |-> opts]
    /\ objects = <<>>
    /\ trace \in ZeroFiles
    /\ next_rec = 0
    /\ view = NotOpen
    /\ NoRanges
    /\ NoPool

SpecZero == InitZero /\ [][NextLoad]_vars

(***************************************************************************)
(* The Analyzer queried: nearest_access on the bbruns of loaded traces     *)
(***************************************************************************)
\* three instructions, an access of the first and an access of the third
ThreeInstrBB ==
    Whole(DG_R_BBDEF, <<out_byte(3), out_word(2), out_word(4096), out_byte(4),
                        out_word(4100), out_byte(4), out_word(4104), out_byte(4),
                        out_byte(DG_ACC_READ), out_byte(1), out_byte(0),
                        out_byte(DG_ACC_WRITE), out_byte(1), out_byte(2)>>)

RunOf(n_instrs, addrs) ==
    Whole(DG_R_BBRUN,
          <<out_word(0), out_byte(n_instrs)>> \o [i \in 1..Len(addrs) |-> out_word(addrs[i])])

NearAddrs == { <<2>>, <<9>>, <<9, 2>>, <<2, 9>> }

\* runs that left after the first instruction and runs to the end
NearRecs == { RunOf(n, addrs) : n \in {1, 3}, addrs \in NearAddrs }

MaxNearLater == 3

NearFiles ==
    { <<HeaderRec, ThreeInstrBB, OneContext>> \o t :
        t \in UNION { [1..n -> NearRecs] : n \in 0..MaxNearLater } }

\* the points asked for, the ratios, and the words that may lie behind the
\* last element of bbruns
QueryAddrs == { 2, 5, 9 }

MaxQueryIseq == 6

Ratios == { 1, 2 }

Garbage == { 0, 1000 }

Queries ==
    [addr : QueryAddrs, iseq : 0..MaxQueryIseq, ratio : Ratios, garbage : Garbage]

InitNear ==
    /\ InitRecorder
    /\ NoBuffer
    /\ env = [later |-> MaxNearLater, opts |-> NoOptions]
    /\ objects = <<>>
    /\ trace \in NearFiles
    /\ next_rec = 0
    /\ view = NotOpen
    /\ NoRanges
    /\ NoPool

\* assert(best_i < bbd.accesses.size()) and
\* assert(bbda.iseq < bbd.instr_addrs.size()) for the access that was found
AssertsHold(A, r) ==
    r.found =>
        LET bbd == A.bbdefs[A.contexts[A.bbruns[r.best].context_index + 1].bbdef_index + 1]
        IN  /\ r.best_i - 1 < Len(bbd.accesses)
            /\ bbd.accesses[r.best_i].iseq < Len(bbd.instr_addrs)

\* a read through bbruns.end() or of best_i unassigned is undefined: the
\* call returns or the program dies; an unassigned best_i is any number,
\* one that passes the assert or one that fails it
QueryOutcomes(A, r) ==
    (IF r.end_read \/ r.uninit THEN {"crash"} ELSE {})
    \cup (IF r.uninit \/ AssertsHold(A, r) THEN {"returned"} ELSE {})
    \cup (IF r.uninit \/ ~AssertsHold(A, r) THEN {"assert"} ELSE {})

MaxQueries == 1

\* the accesses of the largest BBDEF of the files
MaxAccesses == 2

\* mouse: a click asks for the access nearest to the point under it
mouse ==
    /\ view.status = "shown"
    /\ ret.n < MaxQueries
    /\ \E q \in Queries :
         \E how \in QueryOutcomes(view, nearest_access(view, q)) :
           ret' = [op |-> "nearest", n |-> ret.n + 1, q |-> q, how |-> how, r |-> nearest_access(view, q)]
    /\ UNCHANGED <<out, recorder_vars, code, objects, cli_live, pc, phase, guest_vars, hist,
                   counts, buffer_vars, trace, next_rec, view, ranges, pool>>

NextNear == NextLoad \/ mouse

SpecNear == InitNear /\ [][NextNear]_vars

\* the same clicks on the traces with accesses of address 0
SpecZeroNear == InitZero /\ [][NextNear]_vars

(***************************************************************************)
(* rangemap (dg_view_range.h) alone: any inserts, erases and finds         *)
(***************************************************************************)
\* the addresses given to the calls and the number of inserts followed
Points == 0..3

MaxInserts == 3

InitRange ==
    /\ InitRecorder
    /\ NoBuffer
    /\ env = [points |-> Points]
    /\ objects = <<>>
    /\ trace = <<>> /\ next_rec = 0 /\ view = NotOpen
    /\ NoRanges
    /\ NoPool

RangeFrame ==
    UNCHANGED <<out, recorder_vars, code, objects, cli_live, pc, phase, guest_vars, hist,
                counts, buffer_vars, trace, next_rec, view, pool>>

\* insert(a, b, v): the data is the number of the call
Insert ==
    /\ ret.n < MaxInserts
    /\ \E a \in env.points, b \in env.points :
         LET I == rangemap_insert(ranges, a, b, ret.n + 1)
         IN  /\ ranges' = I.ranges
             /\ ret' = [op |-> "insert", n |-> ret.n + 1, a |-> a, b |-> b, threw |-> I.threw]
    /\ RangeFrame

Erase ==
    /\ \E a \in env.points :
         LET E == rangemap_erase(ranges, a)
         IN  /\ ranges' = E.ranges
             /\ ret' = [op |-> "erase", n |-> ret.n, a |-> a, ans |-> E.ans]
    /\ RangeFrame

Find ==
    /\ \E a \in env.points :
         ret' = [op |-> "find", n |-> ret.n, a |-> a, it |-> rangemap_find(ranges, a)]
    /\ UNCHANGED ranges
    /\ RangeFrame

NextRange == Insert \/ Erase \/ Find

SpecRange == InitRange /\ [][NextRange]_vars

(***************************************************************************)
(* pool_allocator<T> (dg_view_pool.h).  pool.chunks is the std::list of    *)
(* chunks, front first; a chunk is its storage (the number of the new[]    *)
(* that made it; nothing is released before the destructor, so the numbers *)
(* never repeat), its capacity and its size.  A pointer into a chunk is    *)
(* <<storage, offset>>, NULL is <<>>.                                      *)
(***************************************************************************)
CHUNK_SIZE == 4096
SPECIAL_SIZE == 128

\* spare = c->capacity - c->size of the front chunk, 0 without a chunk
Spare(P) == IF P.chunks = <<>> THEN 0 ELSE P.chunks[1].capacity - P.chunks[1].size

FillPosition_bug(c) == 0

\* ans = c->storage + c->size
FillPosition(c) == c.size

\* alloc(n): the allocator afterwards and the pointer returned
pool_alloc(P, n) ==
    IF n = 0 THEN [pool |-> P, ans |-> <<>>]
    ELSE LET fresh == Len(P.chunks) + 1
             sized == [P EXCEPT !.total_size = @ + n]
         IN  IF n > Spare(P)
             THEN IF n >= SPECIAL_SIZE
                  THEN [pool |-> [sized EXCEPT
                                    !.total_capacity = @ + n,
                                    !.chunks = Append(@, [storage |-> fresh, capacity |-> n,
                                                          size |-> n])],
                        ans |-> <<fresh, 0>>]
                  ELSE [pool |-> [sized EXCEPT
                                    !.total_capacity = @ + CHUNK_SIZE,
                                    !.chunks = <<[storage |-> fresh, capacity |-> CHUNK_SIZE,
                                                  size |-> n]>> \o @],
                        ans |-> <<fresh, 0>>]
             ELSE [pool |-> [sized EXCEPT !.chunks[1].size = @ + n],
                   ans |-> <<P.chunks[1].storage, FillPosition(P.chunks[1])>>]

AllocSizes == {0, 1, 100, 127, 128, 129, 200, 4000, 4096, 5000}

MaxAllocs == 4

InitPool ==
    /\ InitRecorder
    /\ NoBuffer
    /\ env = [sizes |-> AllocSizes]
    /\ objects = <<>>
    /\ trace = <<>> /\ next_rec = 0 /\ view = NotOpen
    /\ NoRanges
    /\ NoPool

\* one call of alloc; hist keeps what every call was given
alloc ==
    /\ ret.n < MaxAllocs
    /\ \E n \in env.sizes :
         LET r == pool_alloc(pool, n)
         IN  /\ pool' = r.pool
             /\ ret' = [op |-> "alloc", n |-> ret.n + 1, size |-> n, ans |-> r.ans]
             /\ hist' = Append(hist, [ans |-> r.ans, size |-> n])
    /\ UNCHANGED <<out, recorder_vars, code, objects, cli_live, pc, phase, guest_vars,
                   counts, buffer_vars, trace, next_rec, view, ranges>>

NextPool == alloc

SpecPool == InitPool /\ [][NextPool]_vars

(***************************************************************************)
(* What the guest did (runs, hist) against what the file holds             *)
(***************************************************************************)
RecordsOf(type) == { i \in 1..Len(out) : out[i].type = type }

\* 0-based position of record i among the records of its type
PositionOf(i) == Cardinality({ h \in RecordsOf(out[i].type) : h < i })

RunAddrs(rec) == [k \in 1..(Len(rec.body) - 2) |-> rec.body[k + 2].v]

RunRecords(r) == { i \in RecordsOf(DG_R_BBRUN) : out[i].g = r }

\* a run is over once the next one has started or the Recorder has finished
Completed(r) == r \in 1..Len(runs) /\ (r < Len(runs) \/ phase = "done")

AccsAddrs(r) == [k \in 1..Len(runs[r].accs) |-> runs[r].accs[k].addr]

RECURSIVE Executed(_)
Executed(r) ==
    IF r > Len(runs) THEN <<>>
    ELSE [k \in 1..Len(runs[r].accs) |->
             [addr |-> runs[r].accs[k].addr, dir |-> runs[r].accs[k].dir,
              size |-> runs[r].accs[k].size, iaddr |-> runs[r].accs[k].iaddr,
              iseq |-> runs[r].accs[k].iseq]] \o Executed(r + 1)

\* C1: once the Recorder has finished, the Analyzer loads the file without
\* an error and the (addr, dir, size, iaddr, iseq) tuples it materialises
\* are, in order, the accesses the guest executed.
C1_TupleStream ==
    phase = "done" =>
        LET A == load(out)
        IN  A.status = "ok" /\ A.errors = 0 /\ Tuples(A) = Executed(1)

\* C2: in every BBRUN record the j-th address is the address the j-th
\* BBDefAccess of the run's BBDef had in that run.
C2_AddressPositions ==
    \A i \in RecordsOf(DG_R_BBRUN) :
        LET accs == runs[out[i].g].accs
            addrs == RunAddrs(out[i])
        IN  \A j \in 1..Len(addrs) :
                \E k \in 1..Len(accs) : accs[k].j = j /\ accs[k].addr = addrs[j]

\* C3: the assertion at the end of trace_bb_flush never fails, and the
\* addresses of every run that is over are in exactly one BBRUN record, in
\* the order they were appended.
C3_AddressesFlushed ==
    /\ phase # "trace_bb_flush"
    /\ \A r \in 1..Len(runs) :
          (Completed(r) /\ runs[r].accs # <<>>) =>
              /\ Cardinality(RunRecords(r)) = 1
              /\ \A i \in RunRecords(r) : RunAddrs(out[i]) = AccsAddrs(r)

\* C4: every run that is over has a BBRUN record, and its n_instrs byte is
\* the number of instructions of the BBDef the run executed (never 0).
C4_InstrCount ==
    \A r \in 1..Len(runs) :
        Completed(r) =>
            /\ RunRecords(r) # {}
            /\ \A i \in RunRecords(r) :
                  out[i].body[2].v = runs[r].n_exec /\ out[i].body[2].v # 0

\* the instruction marks of the statements 1..i of a superblock
RECURSIVE MarksUpTo(_, _)
MarksUpTo(prog, i) == IF i = 0 THEN 0 ELSE prog[i].n + MarksUpTo(prog, i - 1)

\* the number of BBDefs N marks are cut into
Pieces(N) == (N + MaxBBInstrs - 1) \div MaxBBInstrs

PieceSize(N, k) == IF k < Pieces(N) THEN MaxBBInstrs ELSE N - MaxBBInstrs * (Pieces(N) - 1)

Dirs(st) ==
    CASE st.k \in {"Load", "LoadG"} -> <<DG_ACC_READ>>
      [] st.k \in {"Store", "StoreG"} -> <<DG_ACC_WRITE>>
      [] st.k = "CAS" -> <<DG_ACC_READ, DG_ACC_WRITE>>
      [] OTHER -> <<>>

\* the accesses of the statements i.. that belong to piece k: each one
\* belongs to the latest mark before it
RECURSIVE PieceAccesses(_, _, _)
PieceAccesses(prog, i, k) ==
    IF i > Len(prog) THEN <<>>
    ELSE LET m == MarksUpTo(prog, i)
             here == IF (m - 1) \div MaxBBInstrs + 1 = k
                     THEN [d \in 1..Len(Dirs(prog[i])) |->
                              [dir |-> Dirs(prog[i])[d], size |-> prog[i].size,
                               iseq |-> (m - 1) % MaxBBInstrs]]
                     ELSE <<>>
         IN  here \o PieceAccesses(prog, i + 1, k)

DefAccesses(rec) ==
    LET n == rec.body[1].v
        m == rec.body[2].v
    IN  [a \in 1..m |-> [dir |-> rec.body[2 + 2 * n + 3 * a - 2].v,
                         size |-> rec.body[2 + 2 * n + 3 * a - 1].v,
                         iseq |-> rec.body[2 + 2 * n + 3 * a].v]]

\* C5: every BBDEF record has between 1 and 255 instructions and every
\* access an iseq below that; the marks of a superblock are cut into
\* BBDEFs of 255 instructions, the last one holding the rest, and each
\* access carries the position of its instruction inside its own BBDEF.
C5_BBDefShape ==
    LET N == MarksUpTo(env.prog, Len(env.prog))
        defs == RecordsOf(DG_R_BBDEF)
    IN  /\ phase \notin {"dg_bbdef_flush", "dg_bbdef_add_access", "dg_bbdef_update_instrs"}
        /\ Cardinality(defs) = counts.instr * Pieces(N)
        /\ \A i \in defs :
              LET k == (PositionOf(i) % Pieces(N)) + 1
                  n_instrs == out[i].body[1].v
              IN  /\ n_instrs >= 1 /\ n_instrs <= 255
                  /\ n_instrs = PieceSize(N, k)
                  /\ \A a \in 1..Len(DefAccesses(out[i])) : DefAccesses(out[i])[a].iseq < n_instrs
                  /\ DefAccesses(out[i]) = PieceAccesses(env.prog, 1, k)

C5_Witness ==
    \E i, h \in RecordsOf(DG_R_BBDEF) :
        /\ i < h
        /\ out[i].body[1].v = 255 /\ DefAccesses(out[i]) = <<[dir |-> DG_ACC_READ, size |-> 4, iseq |-> 254]>>
        /\ out[h].body[1].v = 45 /\ DefAccesses(out[h]) = <<[dir |-> DG_ACC_WRITE, size |-> 2, iseq |-> 44]>>

\* C6: two entries have the same context_index exactly when they enter the
\* same BBDef with the same call stack, and the file holds one CONTEXT
\* record for each (BBDef, stack) pair that was entered.
C6_ContextOnce ==
    /\ \A r1, r2 \in 1..Len(runs) :
          (runs[r1].bbd = runs[r2].bbd /\ runs[r1].ec = runs[r2].ec) <=> runs[r1].ctx = runs[r2].ctx
    /\ Cardinality(RecordsOf(DG_R_CONTEXT))
          = Cardinality({ <<runs[r].bbd, runs[r].ec>> : r \in 1..Len(runs) })

C6_Witness ==
    /\ \E r1, r2 \in 1..Len(runs) :
          r1 < r2 /\ runs[r1].bbd = runs[r2].bbd /\ runs[r1].ec = runs[r2].ec
    /\ \E r1, r2 \in 1..Len(runs) :
          r1 < r2 /\ runs[r1].bbd = runs[r2].bbd /\ runs[r1].ec # runs[r2].ec
    /\ Cardinality(RecordsOf(DG_R_CONTEXT)) < Len(runs)

ContextStack(rec) == [k \in 1..(Len(rec.body) - 2) |-> rec.body[k + 2].v]

\* C7: the context_index of a BBRUN is the position of an earlier CONTEXT
\* record, the one of the run's BBDef and stack; the bbdef_index of a
\* CONTEXT is the position of an earlier BBDEF record, the one that starts
\* at the context's first address; both counters equal the number of
\* records written, so no index is used twice.
C7_IndexPositions ==
    /\ global_bbdef_index = Cardinality(RecordsOf(DG_R_BBDEF))
    /\ global_context_index = Cardinality(RecordsOf(DG_R_CONTEXT))
    /\ \A i \in RecordsOf(DG_R_BBRUN) :
          \E c \in RecordsOf(DG_R_CONTEXT) :
              /\ c < i
              /\ PositionOf(c) = out[i].body[1].v
              /\ ContextStack(out[c]) = runs[out[i].g].ec
              /\ out[c].body[1].v = runs[out[i].g].index
    /\ \A c \in RecordsOf(DG_R_CONTEXT) :
          \E b \in RecordsOf(DG_R_BBDEF) :
              /\ b < c
              /\ PositionOf(b) = out[c].body[1].v
              /\ out[b].body[3].v = ContextStack(out[c])[1]

C7_Witness ==
    /\ counts.instr = 2
    /\ phase = "done"
    /\ \E i \in RecordsOf(DG_R_BBRUN), c \in RecordsOf(DG_R_CONTEXT) :
          /\ out[i].body[1].v >= 1
          /\ PositionOf(c) = out[i].body[1].v
          /\ out[c].body[1].v >= 1

EventTypes ==
    { DG_R_MALLOC_BLOCK, DG_R_FREE_BLOCK, DG_R_TRACK_RANGE, DG_R_UNTRACK_RANGE,
      DG_R_START_EVENT, DG_R_END_EVENT }

EventRecords(id) == { i \in 1..Len(out) : out[i].type \in EventTypes /\ out[i].g = id }

\* C8: in the finished file the BBRUN record of an access precedes the
\* record of every event that happened after the access and follows the
\* record of every event that happened before it.
C8_RecordOrder ==
    phase = "done" =>
        \A p, q \in 1..Len(hist) :
            (hist[p].k = "access" /\ hist[q].k = "event") =>
                \A i \in RunRecords(hist[p].run), e \in EventRecords(hist[q].id) :
                    /\ p < q => i < e
                    /\ q < p => e < i

\* C9: for every record of the finished file the prefix is the number of
\* body bytes, a one-byte prefix is below 255, and the Analyzer reads the
\* records of the file without a length error: load counts no error and
\* neither exits nor loses the record boundaries.
C9_Lengths ==
    phase = "done" =>
        /\ \A i \in 1..Len(out) :
              /\ Framed(out[i])
              /\ CreateSize(out[i].type, out[i].pfx) = BodyBytes(out[i].body)
              /\ Len(out[i].pfx) = 1 => out[i].pfx[1] < 255
        /\ LET A == load(out) IN A.status \notin {"exit", "desync"} /\ A.errors = 0

C9_Witness ==
    /\ phase = "done"
    /\ load(out).status = "ok"
    /\ RecordsOf(DG_R_MALLOC_BLOCK) # {}
    /\ RecordsOf(DG_R_FREE_BLOCK) # {}
    /\ RecordsOf(DG_R_BBRUN) # {}
    /\ \E i \in RecordsOf(DG_R_TEXT_AVMA) : BodyBytes(out[i].body) = 255 /\ Len(out[i].pfx) = 9
    /\ \E i \in RecordsOf(DG_R_CONTEXT) : BodyBytes(out[i].body) > 255

\* C10: for every tag and every length, the size record_parser::create
\* decodes is the length out_length encoded.
C10_LengthRoundTrip ==
    hist # <<>> => hist[1].size = env.len

\* C10 for the tags below 0x80: create reads exactly the bytes out_length
\* wrote, one byte for a length below 255 and 0xFF followed by the eight
\* bytes of the length otherwise, and decodes the length.
C10_BelowShortTag ==
    (hist # <<>> /\ env.tag < ShortTagLimit) =>
        /\ hist[1].size = env.len
        /\ hist[1].used = Len(out[2].pfx)
        /\ env.len < 255 => out[2].pfx = <<env.len>>
        /\ env.len >= 255 => Len(out[2].pfx) = 9 /\ out[2].pfx[1] = 255

RECURSIVE SumN(_)
SumN(segs) == IF segs = <<>> THEN 0 ELSE segs[1].n + SumN(Tail(segs))

\* C11: when dg_fini has run, the file holds the bytes that were appended,
\* each once and in the order of the appends, and none is left in the
\* buffer; the process is not stopped before by an append.
C11_AllBytesWritten ==
    /\ phase # "crash"
    /\ phase = "done" => (out_file = appended /\ out_buf = <<>> /\ out_buf_used = 0)

\* C12: out_buf_used never exceeds OUT_BUF_SIZE and no append stores
\* outside out_buf, whatever the size of the append.
C12_BufferBounds ==
    /\ 0 <= out_buf_used
    /\ out_buf_used <= OUT_BUF_SIZE
    /\ ~oob

\* C11 and C12 as long as no append is larger than out_buf: the buffer
\* holds the appends not yet written, out_buf_used is their size and stays
\* within OUT_BUF_SIZE, and dg_fini leaves the file equal to the appends.
C12_WithinBuffer ==
    ~oob => /\ out_buf_used = SumN(out_buf)
            /\ out_buf_used <= OUT_BUF_SIZE
            /\ out_file \o out_buf = appended
            /\ phase = "done" => out_buf = <<>>

\* the addresses that have a MALLOC_BLOCK record in file[1..i] not yet
\* followed by a FREE_BLOCK record, one entry for each such record, latest
\* first; Stray is entered for a FREE_BLOCK that matches none
Stray == 0 - 1

\* the positions of the MALLOC_BLOCK records of the file not yet followed by
\* a FREE_BLOCK record of their address
LiveRecords(file) ==
    { i \in 1..Len(file) :
        /\ file[i].type = DG_R_MALLOC_BLOCK
        /\ \A j \in (i + 1)..Len(file) :
              ~(file[j].type = DG_R_FREE_BLOCK /\ file[j].body[1].v = file[i].body[1].v) }

RECURSIVE LiveAfter(_, _)
LiveAfter(file, i) ==
    IF i = 0 THEN <<>>
    ELSE LET L == LiveAfter(file, i - 1)
             r == file[i]
             addr == r.body[1].v
             hit == { k \in 1..Len(L) : L[k] = addr }
             first == CHOOSE k \in hit : \A h \in hit : k <= h
         IN  IF r.type = DG_R_MALLOC_BLOCK THEN <<addr>> \o L
             ELSE IF r.type # DG_R_FREE_BLOCK THEN L
             ELSE IF hit = {} THEN <<Stray>> \o L
             ELSE SubSeq(L, 1, first - 1) \o SubSeq(L, first + 1, Len(L))

Occurrences(seq, x) == Cardinality({ k \in 1..Len(seq) : seq[k] = x })

TableKeys == [k \in 1..Len(block_table) |-> block_table[k].key]

\* the records of one call of realloc on a tracked block: FREE_BLOCK of the
\* old address, then MALLOC_BLOCK of the resulting address and new size
ReallocRecords(p) ==
    \/ out' = out /\ block_table' = block_table
    \/ /\ Len(out') = Len(out) + 2
       /\ out'[Len(out) + 1].type = DG_R_FREE_BLOCK
       /\ out'[Len(out) + 1].body[1].v = p
       /\ out'[Len(out) + 2].type = DG_R_MALLOC_BLOCK
       /\ \E k \in 1..Len(block_table') :
             /\ block_table'[k].key = out'[Len(out) + 2].body[1].v
             /\ block_table'[k].szB = out'[Len(out) + 2].body[2].v

\* C13: the addresses with a MALLOC_BLOCK record not yet followed by a
\* FREE_BLOCK record are the keys of block_table, each once, and no
\* FREE_BLOCK record is without an earlier unmatched MALLOC_BLOCK of its
\* address; a step of free or realloc on an untracked pointer changes
\* neither the file nor the table, and a step of realloc on a tracked block
\* writes nothing or FREE_BLOCK followed by MALLOC_BLOCK.
C13_BlockTable ==
    /\ [](LET L == LiveAfter(out, Len(out))
          IN  /\ \A x \in HeapSlots \cup {Stray} : Occurrences(L, x) = Occurrences(TableKeys, x)
              /\ \A x \in HeapSlots : Occurrences(TableKeys, x) <= 1)
    /\ [][(dg_free \/ dg_realloc) =>
            \/ out' = out /\ block_table' = block_table
            \/ \E p \in HeapSlots : Has(block_table, p) /\ (dg_free \/ ReallocRecords(p))]_vars

\* C14: the ranges of the MALLOC_BLOCK records that are live at the same
\* time never overlap, and the Analyzer loads the finished file to its end
\* without an error.
C14_NoContentError ==
    /\ \A i, j \in LiveRecords(out) :
          i < j => \/ out[i].body[1].v + out[i].body[2].v <= out[j].body[1].v
                   \/ out[j].body[1].v + out[j].body[2].v <= out[i].body[1].v
    /\ phase = "done" => LET A == load(out) IN A.status = "ok" /\ A.errors = 0

\* the record load handles in this step is all in the file
TurnOnWhole == LoadTurn /\ "have" \notin DOMAIN trace[next_rec]

\* C15: a record with a content error (too short, too long, no terminator,
\* index out of range, empty BB, iseq >= n_instrs) after the header is
\* counted as an error and load goes on with the next record.
C15_ContentNonFatal ==
    [][(TurnOnWhole /\ ~view.first /\ trace[next_rec] \in ContentBad) =>
          /\ view'.status = "ok"
          /\ view'.errors = view.errors + 1
          /\ next_rec' = next_rec + 1]_vars

\* C15, the errors other than a record that is too short
C15_OtherContentErrors ==
    [][(TurnOnWhole /\ ~view.first /\ trace[next_rec] \in ContentBad \ {TooShort}) =>
          /\ view'.status = "ok"
          /\ view'.errors = view.errors + 1
          /\ next_rec' = next_rec + 1]_vars

Overlaps(R, a, b) == \E i \in 1..Len(R) : R[i].first < b /\ a < R[i].second

\* C16: a well-formed MALLOC_BLOCK whose range overlaps a range of block_map
\* is counted as an error, block_map stays as it was and load goes on.
C16_OverlapIsContentError ==
    [][(TurnOnWhole /\ ~view.first /\ trace[next_rec].type = DG_R_MALLOC_BLOCK
          /\ Overlaps(view.block_map, trace[next_rec].body[1].v,
                      trace[next_rec].body[1].v + trace[next_rec].body[2].v)) =>
          /\ view'.status = "ok"
          /\ view'.errors = view.errors + 1
          /\ view'.block_map = view.block_map]_vars

\* C17: a record with a tag load has no case for is reported and skipped
\* by its length prefix: nothing of the state changes but the count of
\* reports, and load goes on with the next record.
C17_UnknownSkipped ==
    [][(TurnOnWhole /\ ~view.first /\ trace[next_rec] \in { Unknown(t) : t \in UnknownTags }) =>
          /\ view' = [view EXCEPT !.errors = @ + 1]
          /\ next_rec' = next_rec + 1]_vars

\* C17, the tags for which create reads the length prefix
C17_BelowShortTag ==
    [][(TurnOnWhole /\ ~view.first
          /\ trace[next_rec] \in { Unknown(t) : t \in { u \in UnknownTags : u < ShortTagLimit } }) =>
          /\ view' = [view EXCEPT !.errors = @ + 1]
          /\ next_rec' = next_rec + 1]_vars

\* the file ends inside the record load handles in this step, whose prefix
\* is one that create reads
TurnOnCut ==
    LoadTurn /\ "have" \in DOMAIN trace[next_rec] /\ Framed(trace[next_rec])

\* C18: the end of the file where a type is read ends load normally; the
\* end of the file inside a record makes load report it and exit.
C18_StreamErrors ==
    /\ [][(view.status = "ok" /\ next_rec = Len(trace) + 1) => view'.status = "end"]_vars
    /\ [][TurnOnCut => view'.status = "exit"]_vars

\* C18, as far as load ends in one way or the other
C18_NoFurtherRecord ==
    [][TurnOnCut => view'.status \in {"exit", "abort"}]_vars

ValidSignature(r) ==
    /\ r.type = DG_R_HEADER
    /\ Len(r.body) >= 2
    /\ r.body[1].k = "s" /\ r.body[1].w = MagicLen - 1 /\ r.body[1].v = "DATAGRIND1"
    /\ r.body[2] = out_byte(0)

\* C19: when the first record is not a HEADER with the signature load has
\* ended with an error once it is past that record, and a whole HEADER met
\* later is counted as an error and changes nothing else.
C19_HeaderFirst ==
    /\ []((next_rec >= 2 /\ ~ValidSignature(trace[1])) => view.status \in {"exit", "abort"})
    /\ [][(TurnOnWhole /\ ~view.first /\ trace[next_rec].type = DG_R_HEADER) =>
             view' = [view EXCEPT !.errors = @ + 1]]_vars

WrongWordSize(r) ==
    ValidSignature(r) /\ Len(r.body) = 5 /\ r.body[5].v # WordSize

\* C20: when the wordsize of the header is not that of the Analyzer, load
\* has ended with an error once it is past the header.
C20_WordSizeFatal ==
    (next_rec >= 2 /\ WrongWordSize(trace[1])) => view.status \in {"exit", "abort"}

\* the intervals [a, b) and [c, d) overlap
Overlap(a, b, c, d) == a < d /\ c < b

\* C21: the stored ranges have first <= second and no two of them overlap.
C21_NonOverlapping ==
    /\ \A i \in 1..Len(ranges) : ranges[i].first <= ranges[i].second
    /\ \A i, j \in 1..Len(ranges) :
          i # j => ~Overlap(ranges[i].first, ranges[i].second, ranges[j].first, ranges[j].second)

\* an empty range, a range that starts where another ends, after an erase
\* that removed something
C21_Witness ==
    /\ Len(ranges) >= 2
    /\ \E i \in 1..Len(ranges) : ranges[i].first = ranges[i].second
    /\ \E i, j \in 1..Len(ranges) : ranges[i].second = ranges[j].first /\ ranges[j].first < ranges[j].second
    /\ ret.op = "erase" /\ ret.ans > 0

\* what insert(a, b) is told to refuse
Refused(R, a, b) ==
    a > b \/ \E i \in 1..Len(R) : Overlap(a, b, R[i].first, R[i].second)

\* the entries; the data tells entries of the same key apart
Entries(R) == { R[i] : i \in 1..Len(R) }

\* C22: insert throws exactly when a > b or a stored range overlaps [a, b);
\* when it throws the map is as before, otherwise the new range is added
\* and the other entries are as before.
C22_InsertThrows ==
    [][Insert =>
         /\ ret'.threw <=> Refused(ranges, ret'.a, ret'.b)
         /\ ret'.threw => ranges' = ranges
         /\ ~ret'.threw =>
               /\ Len(ranges') = Len(ranges) + 1
               /\ Entries(ranges') =
                     Entries(ranges) \cup {[first |-> ret'.a, second |-> ret'.b, data |-> ret'.n]}]_vars

\* an insert refused for an overlap, into a map that holds an empty range
C22_Witness ==
    /\ ret.op = "insert" /\ ret.threw /\ ret.a < ret.b
    /\ \E i \in 1..Len(ranges) : ranges[i].first = ranges[i].second

\* the entries that hold addr
Holding(R, addr) == { i \in 1..Len(R) : R[i].first <= addr /\ addr < R[i].second }

\* C23: find(addr) returns a stored range with first <= addr < second when
\* there is one and end() when there is none.
C23_FindContaining ==
    [][Find =>
         IF Holding(ranges, ret'.a) = {} THEN ret'.it = MapEnd(ranges)
         ELSE ret'.it \in Holding(ranges, ret'.a)]_vars

\* find of the address of an empty range that is also the end of a range,
\* with end() returned, and find returning a range that starts at addr
C23_Witness ==
    /\ ret.op = "find"
    /\ \/ /\ ret.it = MapEnd(ranges)
          /\ \E i, j \in 1..Len(ranges) :
                /\ ranges[i].first = ret.a /\ ranges[i].second = ret.a
                /\ ranges[j].second = ret.a /\ ranges[j].first < ret.a
       \/ /\ ret.it # MapEnd(ranges)
          /\ ranges[ret.it].first = ret.a
          /\ \E i \in 1..Len(ranges) : ranges[i].first = ret.a /\ ranges[i].second = ret.a

\* find(a) on the map after the insert returns the entry just added
FoundInserted ==
    LET it == rangemap_find(ranges', ret'.a)
    IN  it # MapEnd(ranges') /\ ranges'[it].data = ret'.n

\* C24 as amended: after a successful insert(a, b, v) with a < b, find(a)
\* returns the entry whose value is v.
C24_FindAfterInsert ==
    [][(Insert /\ ~ret'.threw /\ ret'.a < ret'.b) => FoundInserted]_vars

\* C24 as stated: after every successful insert(a, b, v), a = b included,
\* find(a) returns the entry whose value is v.
C24_AnyAccepted ==
    [][(Insert /\ ~ret'.threw) => FoundInserted]_vars

\* a successful insert of a range that starts where an empty range lies
C24_Witness ==
    /\ ret.op = "insert" /\ ~ret.threw /\ ret.a < ret.b
    /\ \E i \in 1..Len(ranges) : ranges[i].first = ret.a /\ ranges[i].second = ret.a

\* erase(a) removes the entries that start at a and no other, and returns
\* their number
ErasedByStart ==
    /\ ranges' = SelectSeq(ranges, LAMBDA e : e.first # ret'.a)
    /\ ret'.ans = Len(ranges) - Len(ranges')

\* C25 as amended: erase(a) removes every range that starts at a, returns
\* their number and leaves the others as they were; a find(a) right after
\* it returns end() or a range that starts below a.
C25_EraseByStart ==
    [][Erase =>
         /\ ErasedByStart
         /\ LET it == rangemap_find(ranges', ret'.a)
            IN  it = MapEnd(ranges') \/ ranges'[it].first < ret'.a]_vars

\* C25 as stated: a find(a) right after erase(a) returns end().
C25_FindAfterErase ==
    [][Erase =>
         /\ ErasedByStart
         /\ rangemap_find(ranges', ret'.a) = MapEnd(ranges')]_vars

\* an erase that removed two ranges and left one
C25_Witness ==
    ret.op = "erase" /\ ret.ans >= 2 /\ Len(ranges) >= 1

\* the addresses of the accesses load kept: the sentinel 0 marks the others
KeptAddrs(A) ==
    UNION { { A.bbruns[i].addrs[j] : j \in 1..A.bbruns[i].n_addrs } : i \in 1..Len(A.bbruns) } \ {0}

OnKeptPages(A) ==
    KeptAddrs(A) \cup { q + o : q \in DOMAIN A.page_map, o \in {0, 1, DG_VIEW_PAGE_SIZE - 1} }

\* C26: after load the keys of page_map are the pages of the addresses of
\* the kept accesses, the i-th smallest of them maps to i * 4096,
\* rev_page_map is the inverse, remap_address finds the page of every kept
\* access, and it keeps the distance of two addresses of one page.
C26_PageRemap ==
    view.status = "end" =>
      LET touched == { page_round_down(a) : a \in KeptAddrs(view) }
          pm == view.page_map
      IN  /\ DOMAIN pm = touched
          /\ \A q \in touched : pm[q] = DG_VIEW_PAGE_SIZE * Cardinality({ h \in touched : h < q })
          /\ DOMAIN view.rev_page_map = { pm[q] : q \in touched }
          /\ \A q \in touched : view.rev_page_map[pm[q]] = q
          /\ \A a \in KeptAddrs(view) : remap_address(view, a).assert
          /\ \A a, b \in OnKeptPages(view) :
                page_round_down(a) = page_round_down(b) =>
                  remap_address(view, a).v - remap_address(view, b).v = a - b

C26_Witness ==
    /\ view.status = "end"
    /\ Cardinality(DOMAIN view.page_map) >= 2
    /\ 4094 \in KeptAddrs(view)
    /\ \E i \in 1..Len(view.bbruns) : \E j \in 1..view.bbruns[i].n_addrs :
         view.bbruns[i].addrs[j] = 0

\* a turn of the loop of load on a BBRUN record
BBRunTurn ==
    /\ view.status = "ok"
    /\ next_rec \in 1..Len(trace)
    /\ trace[next_rec].type = DG_R_BBRUN

\* the turn kept the bbrun of the record
KeptRun == BBRunTurn /\ Len(view'.bbruns) = Len(view.bbruns) + 1

\* the sums of n_instrs and of the numbers of addresses over the BBRUN
\* records of the file before record n
RECURSIVE InstrsBefore(_, _)
InstrsBefore(file, n) ==
    IF n <= 1 THEN 0
    ELSE InstrsBefore(file, n - 1)
           + (IF file[n - 1].type = DG_R_BBRUN THEN file[n - 1].body[2].v ELSE 0)

RECURSIVE AddrsBefore(_, _)
AddrsBefore(file, n) ==
    IF n <= 1 THEN 0
    ELSE AddrsBefore(file, n - 1)
           + (IF file[n - 1].type = DG_R_BBRUN THEN Len(file[n - 1].body) - 2 ELSE 0)

\* C27: under every selection of --events, --ranges and --malloc-only a
\* kept bbrun gets as iseq_start and dseq_start the sums of n_instrs and of
\* the address counts over the BBRUN records of the file before its own,
\* kept or not: the values depend on the file alone.
C27_SeqStarts ==
    [][KeptRun =>
         /\ Last(view'.bbruns).iseq_start = InstrsBefore(trace, next_rec)
         /\ Last(view'.bbruns).dseq_start = AddrsBefore(trace, next_rec)]_vars

\* a kept bbrun that follows a BBRUN record which was dropped
C27_Witness ==
    /\ view # NotOpen
    /\ env.opts # NoOptions
    /\ Len(view.bbruns) = 1
    /\ view.bbruns[1].iseq_start > 0
    /\ view.bbruns[1].dseq_start > 1

\* the label of an event record of the file
LabelOf(r) == [id |-> r.body[1].v, len |-> r.body[1].w]

\* the START_EVENT records of label before record n that no END_EVENT has
\* closed: an END_EVENT met at zero is ignored
RECURSIVE OpenCount(_, _, _)
OpenCount(file, n, label) ==
    IF n <= 1 THEN 0
    ELSE LET c == OpenCount(file, n - 1, label)
             r == file[n - 1]
         IN  IF r.type = DG_R_START_EVENT /\ LabelOf(r) = label THEN c + 1
             ELSE IF r.type = DG_R_END_EVENT /\ LabelOf(r) = label /\ c > 0 THEN c - 1
             ELSE c

\* C28: with --events, while load runs active_events holds each selected
\* label as often as the file so far has opened it and not closed it, and
\* no other label; a BBRUN record has an access kept only when some
\* selected label is open at its place in the file.
C28_EventsFilter ==
    /\ []((view.status = "ok" /\ view.chosen_events # {}) =>
            /\ \A i \in 1..Len(view.active_events) : view.active_events[i] \in view.chosen_events
            /\ \A l \in view.chosen_events :
                 Cardinality({ i \in 1..Len(view.active_events) : view.active_events[i] = l })
                   = OpenCount(trace, next_rec, l))
    /\ [][(KeptRun /\ view.chosen_events # {}) =>
            \E l \in view.chosen_events : OpenCount(trace, next_rec, l) > 0]_vars

\* a bbrun kept while the selected event is open, in a file that also
\* opens an event outside the selection
C28_Witness ==
    /\ view.status = "ok"
    /\ view.chosen_events # {}
    /\ view.bbruns # <<>>
    /\ Len(view.active_events) = 1
    /\ \E n \in 1..Len(trace) :
         trace[n].type = DG_R_START_EVENT /\ LabelOf(trace[n]) \notin view.chosen_events

\* the accesses of the BBRUN record of the turn: their positions, the
\* addresses in the record and the sizes in the BBDEF of its context
RunAccesses == 1..(Len(trace[next_rec].body) - 2)

RunAddr(i) == trace[next_rec].body[2 + i].v

RunSize(i) ==
    LET ctx == view.contexts[trace[next_rec].body[1].v + 1]
    IN  view.bbdefs[ctx.bbdef_index + 1].accesses[i].size

\* the turn kept access i of the record
KeptAccess(i) == KeptRun /\ Last(view'.bbruns).addrs[i] # 0

\* [addr, addr + size) and [a, a + s) have a byte in common
Intersects(addr, size, a, s) ==
    (IF addr > a THEN addr ELSE a) < (IF addr + size < a + s THEN addr + size ELSE a + s)

InActiveRange(addr, size) ==
    \E k \in 1..Len(view.active_ranges) :
      Intersects(addr, size, view.active_ranges[k][1], view.active_ranges[k][2])

\* C29: with --ranges as the only filter an access is kept if and only if
\* its bytes [addr, addr + size) intersect [a, a + s) for some range (a, s)
\* of active_ranges, the TRACK_RANGE records of selected labels not yet
\* removed by an UNTRACK_RANGE.
C29_RangesFilter ==
    [][(BBRunTurn /\ view.chosen_ranges # {} /\ view.chosen_events = {} /\ ~view.malloc_only) =>
         \A i \in RunAccesses : KeptAccess(i) <=> InActiveRange(RunAddr(i), RunSize(i))]_vars

\* the same with every range of active_ranges holding a byte
C29_NonEmptyRanges ==
    [][(BBRunTurn /\ view.chosen_ranges # {} /\ view.chosen_events = {} /\ ~view.malloc_only
          /\ \A k \in 1..Len(view.active_ranges) : view.active_ranges[k][2] > 0) =>
         \A i \in RunAccesses : KeptAccess(i) <=> InActiveRange(RunAddr(i), RunSize(i))]_vars

\* addr lies in a block of block_map: one inserted by a MALLOC_BLOCK record
\* and not erased by a FREE_BLOCK since
InLiveBlock(addr) ==
    \E k \in 1..Len(view.block_map) :
      view.block_map[k].first <= addr /\ addr < view.block_map[k].second

EventOpen == \E l \in view.chosen_events : OpenCount(trace, next_rec, l) > 0

\* C30: with --malloc-only alone an access is kept if and only if its
\* address lies in a live block; with --events or --ranges selected as well
\* a kept access lies in a live block, has a selected event open and
\* intersects an active range, whichever of them are selected.
C30_MallocOnly ==
    [][(BBRunTurn /\ view.malloc_only) =>
         \A i \in RunAccesses :
           /\ (view.chosen_events = {} /\ view.chosen_ranges = {}) =>
                (KeptAccess(i) <=> InLiveBlock(RunAddr(i)))
           /\ KeptAccess(i) =>
                /\ InLiveBlock(RunAddr(i))
                /\ view.chosen_events # {} => EventOpen
                /\ view.chosen_ranges # {} => InActiveRange(RunAddr(i), RunSize(i))]_vars

\* the same without the part on the ranges
C30_BlocksAndEvents ==
    [][(BBRunTurn /\ view.malloc_only) =>
         \A i \in RunAccesses :
           /\ (view.chosen_events = {} /\ view.chosen_ranges = {}) =>
                (KeptAccess(i) <=> InLiveBlock(RunAddr(i)))
           /\ KeptAccess(i) =>
                /\ InLiveBlock(RunAddr(i))
                /\ view.chosen_events # {} => EventOpen]_vars

\* the last position of s that holds a range with the key, 0 if none
LastOpen(s, key) ==
    LET at == { k \in 1..Len(s) : s[k].key = key }
    IN  IF at = {} THEN 0 ELSE CHOOSE k \in at : \A h \in at : h <= k

WithoutAt(s, k) == SubSeq(s, 1, k - 1) \o SubSeq(s, k + 1, Len(s))

\* the TRACK_RANGE records before record n that no UNTRACK_RANGE has
\* closed: an UNTRACK_RANGE closes the range tracked last with its address
\* and length, whatever its label
RECURSIVE OpenRanges(_, _)
OpenRanges(file, n) ==
    IF n <= 1 THEN <<>>
    ELSE LET open == OpenRanges(file, n - 1)
             r == file[n - 1]
             key == <<r.body[1].v, r.body[2].v>>
         IN  IF r.type = DG_R_TRACK_RANGE
             THEN Append(open, [key |-> key, label |-> [id |-> r.body[5].v, len |-> r.body[5].w]])
             ELSE IF r.type = DG_R_UNTRACK_RANGE /\ LastOpen(open, key) # 0
             THEN WithoutAt(open, LastOpen(open, key))
             ELSE open

\* C31: while load runs with --ranges, active_ranges holds each (addr,
\* size) as often as a TRACK_RANGE record of a selected label with that
\* address and length is open; an UNTRACK_RANGE that closes a range of a
\* label outside the selection removes nothing.
C31_ActiveRanges ==
    (view.status = "ok" /\ view.chosen_ranges # {}) =>
      LET open == OpenRanges(trace, next_rec)
      IN  \A key \in { open[k].key : k \in 1..Len(open) }
                     \cup { view.active_ranges[k] : k \in 1..Len(view.active_ranges) } :
            Cardinality({ k \in 1..Len(view.active_ranges) : view.active_ranges[k] = key })
              = Cardinality({ k \in 1..Len(open) :
                                open[k].key = key /\ open[k].label \in view.chosen_ranges })

\* keep_access on access i of the BBRUN record of the turn
Accepted(i) == keep_access(view, RunAddr(i), RunSize(i))

\* C32: a bbrun is stored exactly when keep_access accepted one of its
\* accesses, its addrs hold 0 exactly at the positions keep_access
\* rejected, and so every stored bbrun has a position that is not 0.
C32_Sentinel ==
    /\ [](view # NotOpen =>
            \A k \in 1..Len(view.bbruns) :
              \E j \in 1..view.bbruns[k].n_addrs : view.bbruns[k].addrs[j] # 0)
    /\ [][BBRunTurn =>
            /\ KeptRun <=> \E i \in RunAccesses : Accepted(i)
            /\ KeptRun => \A i \in RunAccesses :
                             Last(view'.bbruns).addrs[i] = 0 <=> ~Accepted(i)]_vars

\* the same for the accesses at other addresses than 0
C32_NonZero ==
    [][(BBRunTurn /\ \A i \in RunAccesses : RunAddr(i) # 0) =>
         /\ KeptRun <=> \E i \in RunAccesses : Accepted(i)
         /\ KeptRun => \A i \in RunAccesses :
                          Last(view'.bbruns).addrs[i] = 0 <=> ~Accepted(i)]_vars

\* the entries of block_map that hold addr
HoldingBlocks(addr) ==
    { k \in 1..Len(view.block_map) :
        view.block_map[k].first <= addr /\ addr < view.block_map[k].second }

KeptPositions ==
    { p \in (1..Len(view.bbruns)) \X (1..MaxAccesses) :
        p[2] <= view.bbruns[p[1]].n_addrs /\ view.bbruns[p[1]].addrs[p[2]] # 0 }

ScoreAt(p, q) == AccessScore(view, view.bbruns[p[1]], p[2], q.addr, q.iseq, q.ratio)

\* the answer of the last query is a kept access and none is nearer
Nearest ==
    /\ ret.r.found
    /\ <<ret.r.best, ret.r.best_i>> \in KeptPositions
    /\ \A p \in KeptPositions : ScoreAt(<<ret.r.best, ret.r.best_i>>, ret.q) <= ScoreAt(p, ret.q)

\* C34: on a loaded trace with a kept access, for every point and ratio
\* asked, nearest_access returns a kept access whose distance to the point
\* is the least among the kept accesses.
C34_NearestKept ==
    ret.op = "nearest" => (ret.how = "returned" /\ Nearest)

\* every access of a BBRUN record of the file belongs to one of the
\* n_instrs instructions the record counts
CountedRuns ==
    \A n \in 1..Len(trace) :
      trace[n].type = DG_R_BBRUN =>
        \A i \in 1..(Len(trace[n].body) - 2) :
          view.bbdefs[view.contexts[trace[n].body[1].v + 1].bbdef_index + 1].accesses[i].iseq
            < trace[n].body[2].v

\* the same for such files and the calls that returned
C34_CountedRuns ==
    (ret.op = "nearest" /\ ret.how = "returned" /\ CountedRuns) => Nearest

\* a call that read no end() and returned an access that is not the nearest
C34_NoSkip ==
    (ret.op = "nearest" /\ ~ret.r.end_read) => Nearest

\* C39: nearest_access reads through no iterator that is bbruns.end() and
\* reads best_i only once it was assigned.
C39_ValidReads ==
    ret.op = "nearest" => (~ret.r.end_read /\ ~ret.r.uninit)

\* the loop of load has met the end of the file and no bbrun was kept
EndsEmpty ==
    /\ view.status = "ok"
    /\ next_rec = Len(trace) + 1
    /\ view.bbruns = <<>>

\* C35: a load that ends with no bbrun kept is followed by the message of
\* main and the return of 0; the program does not die on the way, which it
\* may when it reads an element of the empty bbruns.
C35_EmptyExit ==
    /\ [][EndsEmpty => view'.status = "end"]_vars
    /\ [][(view.status = "end" /\ view.bbruns = <<>>) => view'.status = "none"]_vars

\* an alloc call has just returned
AllocStep == ret'.op = "alloc" /\ ret'.n = ret.n + 1

\* chunk c, given to the allocator with new T[n]
Dedicated(P, n) == [storage |-> Len(P.chunks) + 1, capacity |-> n, size |-> n]

\* C36: alloc(n) with n over the special threshold of 128 that does not fit
\* appends a dedicated chunk of capacity n and leaves the active chunk the
\* active one; any other request that does not fit makes a new 4096-element
\* chunk the active chunk; a request that fits is served from the active
\* chunk at its fill position.
C36_AllocBranches ==
    [][AllocStep /\ ret'.size > 0 =>
         LET n == ret'.size
         IN  IF n <= Spare(pool)
             THEN /\ ret'.ans = <<pool.chunks[1].storage, pool.chunks[1].size>>
                  /\ pool'.chunks = [pool.chunks EXCEPT ![1].size = @ + n]
             ELSE IF n > SPECIAL_SIZE
             THEN /\ pool'.chunks = Append(pool.chunks, Dedicated(pool, n))
                  /\ pool.chunks # <<>> => pool'.chunks[1] = pool.chunks[1]
                  /\ ret'.ans = <<Len(pool.chunks) + 1, 0>>
             ELSE /\ pool'.chunks = <<[storage |-> Len(pool.chunks) + 1,
                                      capacity |-> CHUNK_SIZE, size |-> n]>> \o pool.chunks
                  /\ ret'.ans = <<Len(pool.chunks) + 1, 0>>]_vars

\* C36, as the code draws the line: a request of exactly 128 elements that
\* does not fit is given a dedicated chunk as well
C36_AtThreshold ==
    [][AllocStep /\ ret'.size >= SPECIAL_SIZE /\ ret'.size > Spare(pool) =>
         pool'.chunks = Append(pool.chunks, Dedicated(pool, ret'.size))]_vars


\* the calls that were given storage, in order
Given == SelectSeq(hist, LAMBDA h : h.size > 0)

RECURSIVE SumField(_, _)
SumField(chunks, f) ==
    IF chunks = <<>> THEN 0 ELSE chunks[1][f] + SumField(Tail(chunks), f)

\* the elements [off, off + size) of two regions do not meet
Apart(g, h) ==
    \/ g.ans[1] # h.ans[1]
    \/ g.ans[2] + g.size <= h.ans[2]
    \/ h.ans[2] + h.size <= g.ans[2]

InsideChunk(g) ==
    \E k \in 1..Len(pool.chunks) :
        /\ pool.chunks[k].storage = g.ans[1]
        /\ 0 <= g.ans[2]
        /\ g.ans[2] + g.size <= pool.chunks[k].capacity

\* every chunk is still there, where it was and as large as it was
ChunksStay ==
    \A k \in 1..Len(pool.chunks) :
        \E m \in 1..Len(pool'.chunks) :
            /\ pool'.chunks[m].storage = pool.chunks[k].storage
            /\ pool'.chunks[m].capacity = pool.chunks[k].capacity
            /\ pool'.chunks[m].size >= pool.chunks[k].size

\* C40: after any sequence of alloc calls the regions returned for n > 0 are
\* pairwise disjoint and each lies inside one chunk, within its capacity;
\* no chunk is moved or freed by a later call; every chunk has size <=
\* capacity; total_size and total_capacity are the sums over the chunks;
\* alloc(0) returns NULL and changes nothing.
C40_PoolInvariants ==
    /\ [](/\ \A i, j \in 1..Len(Given) : i < j => Apart(Given[i], Given[j])
          /\ \A i \in 1..Len(Given) : InsideChunk(Given[i])
          /\ \A k \in 1..Len(pool.chunks) : pool.chunks[k].size <= pool.chunks[k].capacity
          /\ pool.total_size = SumField(pool.chunks, "size")
          /\ pool.total_capacity = SumField(pool.chunks, "capacity")
          /\ \A i \in 1..Len(hist) : hist[i].size = 0 => hist[i].ans = <<>>)
    /\ [][AllocStep => /\ ChunksStay
                       /\ ret'.size = 0 => pool' = pool /\ ret'.ans = <<>>]_vars

\* two regions of one chunk, a dedicated chunk beside the active one, and a
\* call of alloc(0) among four calls
C40_Witness ==
    /\ ret.op = "alloc"
    /\ Len(hist) = 4
    /\ \E i \in 1..4 : hist[i].size = 0
    /\ \E i, j \in 1..Len(Given) : i < j /\ Given[i].ans[1] = Given[j].ans[1]
    /\ Len(pool.chunks) = 2
    /\ pool.chunks[2].capacity = 5000

\* the bbdef that a stored bbrun leads to
RunDef(bbr) == view.bbdefs[view.contexts[bbr.context_index + 1].bbdef_index + 1]

\* C37, the indexes: every stored bbrun has context_index < |contexts|, its
\* context has bbdef_index < |bbdefs|, its n_addrs <= |accesses| of that
\* bbdef, and every access of every bbdef has iseq < |instr_addrs|
C37_Indexes ==
    view.status # "closed" =>
        /\ \A k \in 1..Len(view.bbruns) :
             /\ view.bbruns[k].context_index < Len(view.contexts)
             /\ view.contexts[view.bbruns[k].context_index + 1].bbdef_index < Len(view.bbdefs)
             /\ view.bbruns[k].n_addrs <= Len(RunDef(view.bbruns[k]).accesses)
        /\ \A d \in 1..Len(view.bbdefs) : \A a \in 1..Len(view.bbdefs[d].accesses) :
             view.bbdefs[d].accesses[a].iseq < Len(view.bbdefs[d].instr_addrs)

\* C37: in every state reached by loading a trace the indexes of the stored
\* bbruns, contexts and bbdefs are in range, and no assert of
\* nearest_access fails.
C37_AssertsHold ==
    /\ C37_Indexes
    /\ ret.op = "nearest" => ret.how # "assert"

\* load has read one record, counted a content error for it and goes on
ErrorCounted ==
    /\ view.status = "ok"
    /\ view'.status = "ok"
    /\ view'.errors = view.errors + 1

\* C38: a record that load counts as a content error leaves bbdefs,
\* contexts, bbruns, block_map, block_storage, active_events, active_ranges,
\* page_map, iseq and dseq as they were before the record.
C38_ErrorKeepsState ==
    [][ErrorCounted =>
         /\ view'.bbdefs = view.bbdefs
         /\ view'.contexts = view.contexts
         /\ view'.bbruns = view.bbruns
         /\ view'.block_map = view.block_map
         /\ view'.block_storage = view.block_storage
         /\ view'.active_events = view.active_events
         /\ view'.active_ranges = view.active_ranges
         /\ view'.page_map = view.page_map
         /\ view'.iseq = view.iseq
         /\ view'.dseq = view.dseq]_vars

====
